---- MODULE Spec2Model ----
(***************************************************************************)
(* Adaptive scraping scheduler, price tracking / drop detection, source    *)
(* scraping job, deal persistence, the scraping orchestrator's batch and   *)
(* the recommendation of the AI service of sharkted.                       *)
(*                                                                         *)
(* Units: intervals in minutes, prices in whole currency units, drop       *)
(* percentages in tenths of a percent, the coefficient of variation in     *)
(* thousandths, dates in days.  The two moving averages of the scheduler   *)
(* are exact rationals, stored as numerators over RateScale and AvgScale.  *)
(***************************************************************************)
EXTENDS Integers, Sequences, FiniteSets, TLC

VARIABLES
    \* ---- SmartScheduler (app/services/smart_scheduler.py)
    interval_minutes,   \* LayerConfig.interval_minutes of the LayerConfig objects
    last_scrape,        \* SourceSchedule.last_scrape, per source and layer
    success_rate,       \* SourceSchedule.success_rate, numerator over RateScale
    avg_new_products,   \* SourceSchedule.avg_new_products, numerator over AvgScale
    now,                \* the clock read by datetime.utcnow(), in minutes
    calls,              \* number of mark_completed calls made so far
    last_report,        \* arguments of the latest mark_completed call
    \* ---- price tracking (app/services/price_tracking_service.py)
    stats,              \* table deal_price_stats: deal_id -> row
    history,            \* table price_history, rows in insertion order
    today,              \* the date read by datetime.utcnow(), in days
    autoflush,          \* whether SessionLocal sessions flush before a query
    obs_total,          \* number of record_price_observation calls so far
    last_obs,           \* latest record_price_observation call and its result
    last_cleanup,       \* latest cleanup_old_history call and its result
    \* ---- _detect_drop applied to a fixed stats row
    probe,              \* the stats row: floor, previous price, volatility
    detected,           \* price -> result of _detect_drop(price, probe)
    \* ---- jobs_scraping.scrape_source
    deals,              \* ids of the deals persist_deal has stored
    job,                \* the scrape_source run in progress: position, locals
    scrape_result,      \* the latest response of scrape_source
    scraping_log,       \* the results handed to add_scraping_log
    \* ---- ScrapingOrchestrator._save_products_with_count
    deal_table,         \* <<source_id, external_id>> -> sale_price of the Deal
    save_calls,         \* number of saves so far
    last_save,          \* the latest save: its arguments and what it returned
    \* ---- ScrapingOrchestrator.run_all_scrapers (services/scraping_orchestrator.py)
    batch,              \* the run_all_scrapers call: position, arguments
    semaphore,          \* asyncio.Semaphore._value of the call's semaphore
    task,               \* the source runs handed to gather, in list order
    scraping_logs,      \* table scraping_logs, rows in insertion order
    error_count,        \* attribute error_count of the Source objects, per name
    batch_result,       \* what run_all_scrapers returned, or what it raised
    \* ---- two overlapping runs of one source, each on its own session
    deal_rows,          \* table deals: the committed rows of the source
    session,            \* per session: position in the save, rows not committed
    \* ---- jobs_scraping.scheduled_scraping
    invocation,         \* per invocation: position, the jobs still to run
    \* ---- AIService._get_recommendation
    recommendation,     \* the latest pair of calls: arguments and results
    \* ---- two record_price_observation calls on one deal, each on its session
    observer,           \* per call: position, price, the stats row it read
    \* ---- scrape_sales of the scrapers with an API path (scrapers/)
    scraper,            \* the run: position, API fetches and browser calls so far
    \* ---- ProxyRotator and get_proxy_rotator (services/proxy_service.py)
    rotator,            \* the global ProxyRotator: flags, lock, proxies
    proxy_caller,       \* per caller of get_proxy_rotator: position, result
    \* ---- recommended prices (services/ai_service.py, scoring_service.py)
    band                \* the latest price band computed, with its percentiles

schedVars == <<interval_minutes, last_scrape, success_rate, avg_new_products,
               now, calls, last_report>>

priceVars == <<stats, history, today, autoflush, obs_total, last_obs,
               last_cleanup>>

detectVars == <<probe, detected>>

scrapeVars == <<deals, job, scrape_result, scraping_log>>

saveVars == <<deal_table, save_calls, last_save>>

batchVars == <<batch, semaphore, task, scraping_logs, error_count,
               batch_result>>

overlapVars == <<deal_rows, session>>

\* the variables of the orchestrator and of scheduled_scraping
lastVars == <<scraper, rotator, proxy_caller, band>>

laterVars == <<batchVars, overlapVars, invocation, recommendation, observer,
               lastVars>>

vars == <<interval_minutes, last_scrape, success_rate, avg_new_products,
          now, calls, last_report,
          stats, history, today, autoflush, obs_total, last_obs, last_cleanup,
          probe, detected,
          deals, job, scrape_result, scraping_log,
          deal_table, save_calls, last_save,
          batch, semaphore, task, scraping_logs, error_count, batch_result,
          deal_rows, session, invocation, recommendation, observer,
          scraper, rotator, proxy_caller, band>>

\* None, for the optional numbers (all of them are non-negative when set)
NoneVal == 0 - 1
\* None, for an optional string
NoneStr == "None"

\* the function f extended or overwritten at k
Put(f, k, v) == [x \in DOMAIN f \cup {k} |-> IF x = k THEN v ELSE f[x]]

Min(a, b) == IF a <= b THEN a ELSE b
Max(a, b) == IF a >= b THEN a ELSE b

RECURSIVE Pow(_, _)
Pow(b, e) == IF e = 0 THEN 1 ELSE b * Pow(b, e - 1)

(***************************************************************************)
(* Bounds                                                                  *)
(***************************************************************************)
MaxCalls == 4           \* mark_completed calls in one behaviour of Spec
MaxDeepCalls == 8       \* mark_completed calls in one behaviour of DeepSpec
MaxObs == 6             \* record_price_observation calls in PriceSpec
MaxRetObs == 3          \* record_price_observation calls in RetentionSpec
MaxJumps == 3           \* clock jumps of DaysPerJump days in RetentionSpec
MaxUrls == 3            \* product URLs one discovery returns in ScrapeSpec
MaxRuns == 1            \* scrape_source runs in one behaviour of ScrapeSpec
MaxListLen == 2         \* products in one list handed to a save in SaveSpec
MaxSaves == 2           \* saves in one behaviour of SaveSpec
MaxBatch == 2           \* source runs in one run_all_scrapers call
MaxOverlapLen == 2      \* products in the list of one of two overlapping runs
MaxTicks == 1           \* clock steps of TickMinutes minutes in JobsSpec
MaxFailingUrls == 11    \* product URLs of a run in FailingSpec
MaxEarlierObs == 1      \* observations before the two calls in RaceSpec
MaxPages == 2           \* API pages one scrape_sales run fetches in ScraperSpec
MaxFailCount == 3       \* fail_count a proxy reaches in PoolSpec
MaxProxyCalls == 2      \* get_proxy_rotator calls of one task in RotatorSpec
TickMinutes == 15

(***************************************************************************)
(* SmartScheduler                                                          *)
(***************************************************************************)
ScrapeLayer == {"seed", "category", "watchlist"}

\* the sources of SOURCE_LAYER_URLS that the model follows
Sources == {"jdsports", "size"}
\* a source name that is not a key of SOURCE_LAYER_URLS
UnknownSource == "zalando"

\* new-item counts reported to mark_completed
NewProducts == {0, 60}

DefaultInterval(layer) ==
    CASE layer = "seed" -> 15
      [] layer = "category" -> 60
      [] layer = "watchlist" -> 10

HardMaxInterval == 120
HardMinInterval == 5

RateScale == Pow(10, Max(MaxCalls, MaxDeepCalls))
AvgScale == Pow(5, Max(MaxCalls, MaxDeepCalls))

\* schedule.layers[layer]: _init_schedules stores DEFAULT_LAYER_CONFIGS.copy(),
\* a shallow copy, so every source's dict holds the one LayerConfig object of
\* the layer, which is also the object DEFAULT_LAYER_CONFIGS[layer] holds.
ConfigInterval(source, layer) == interval_minutes[layer]

\* variant: the baseline read from a table the reports never write
BaseIntervalFixed(layer) == DefaultInterval(layer)

\* DEFAULT_LAYER_CONFIGS[layer].interval_minutes as mark_completed reads it:
\* the interval of the shared LayerConfig object
BaseInterval(layer) == interval_minutes[layer]

\* schedule.success_rate * 0.9 + 0.1   /   schedule.success_rate * 0.9
UpdateRate(rate, success) ==
    (rate \div 10) * 9 + (IF success THEN RateScale \div 10 ELSE 0)

\* schedule.avg_new_products * 0.8 + new_products * 0.2
UpdateAvg(avg, new_products) ==
    (avg \div 5) * 4 + new_products * (AvgScale \div 5)

RateBelowHalf(rate) == 2 * rate < RateScale
AvgAboveTen(avg) == avg > 10 * AvgScale

\* variant: halving without the 5-minute floor
SpeedUpNoFloor(base_interval) == base_interval \div 2

SlowDown(base_interval) == Min(base_interval * 2, HardMaxInterval)
SpeedUp(base_interval) == Max(base_interval \div 2, HardMinInterval)
\* int(config.interval_minutes * 0.9 + base_interval * 0.1)
Relax(cur_interval, base_interval) == (9 * cur_interval + base_interval) \div 10

AdjustInterval(rate, avg, cur_interval, base_interval) ==
    IF RateBelowHalf(rate) THEN SlowDown(base_interval)
    ELSE IF AvgAboveTen(avg) THEN SpeedUp(base_interval)
    ELSE Relax(cur_interval, base_interval)

SchedInit ==
    /\ interval_minutes = [l \in ScrapeLayer |-> DefaultInterval(l)]
    /\ last_scrape = [s \in Sources |-> [l \in ScrapeLayer |-> NoneVal]]
    /\ success_rate = [s \in Sources |-> RateScale]
    /\ avg_new_products = [s \in Sources |-> 0]
    /\ now = 0
    /\ calls = 0
    /\ last_report = {}

mark_completed(source, layer, success, new_products) ==
    /\ calls' = calls + 1
    /\ last_report' = {[source |-> source, layer |-> layer,
                        success |-> success, new_products |-> new_products]}
    /\ now' = now
    /\ IF source \notin DOMAIN success_rate
       THEN UNCHANGED <<interval_minutes, last_scrape, success_rate,
                        avg_new_products>>
       ELSE LET rate == UpdateRate(success_rate[source], success)
                avg == UpdateAvg(avg_new_products[source], new_products)
            IN /\ last_scrape' = [last_scrape EXCEPT ![source][layer] = now]
               /\ success_rate' = [success_rate EXCEPT ![source] = rate]
               /\ avg_new_products' = [avg_new_products EXCEPT ![source] = avg]
               /\ interval_minutes' =
                    [interval_minutes EXCEPT ![layer] =
                        AdjustInterval(rate, avg, ConfigInterval(source, layer),
                                       BaseInterval(layer))]

MarkCompleted ==
    /\ calls < MaxCalls
    /\ \E source \in Sources \cup {UnknownSource}, layer \in ScrapeLayer,
          success \in BOOLEAN, new_products \in NewProducts :
            mark_completed(source, layer, success, new_products)

\* The reports DeepSpec follows to depth MaxDeepCalls: those of one source,
\* every failing report and the successful reports that found nothing new.
DeepSource == "jdsports"

MarkCompletedDeep ==
    /\ calls < MaxDeepCalls
    /\ \E layer \in ScrapeLayer, success \in BOOLEAN,
          new_products \in NewProducts :
            /\ ~(success /\ new_products > 0)
            /\ mark_completed(DeepSource, layer, success, new_products)

(***************************************************************************)
(* Price tracking and drop detection                                       *)
(***************************************************************************)
Deals == {1, 2}
\* the deal PriceSpec follows to depth MaxObs
DeepDeal == 1

\* observed prices
Prices == {60, 85, 86, 89, 90, 100}

DROP_THRESHOLD_VOLATILE == 10   \* percent
DROP_THRESHOLD_STABLE == 15
DROP_THRESHOLD_DEFAULT == 12
VOLATILITY_THRESHOLD == 150     \* thousandths
StableCutoff == 50              \* thousandths, the literal 0.05

DaysPerJump == 31
CleanupDays == {30, 90}

\* observed prices in RetentionSpec
RetentionPrices == {60, 85, 100}

\* round(a / b) as Python rounds a float to a fixed number of decimals; no
\* quotient of the model lies exactly half-way between two results
RoundDiv(a, b) ==
    LET q == a \div b
        r == a % b
    IN IF 2 * r > b \/ (2 * r = b /\ q % 2 = 1) THEN q + 1 ELSE q

\* a / c >= d / b for naturals a, d and positive c, b, without forming products
RECURSIVE FracGeq(_, _, _, _)
FracGeq(a, c, d, b) ==
    LET q1 == a \div c
        r1 == a % c
        q2 == d \div b
        r2 == d % b
    IN IF q1 # q2 THEN q1 > q2
       ELSE IF r2 = 0 THEN TRUE
       ELSE IF r1 = 0 THEN FALSE
       ELSE FracGeq(b, r2, c, r1)

RECURSIVE SeqSum(_)
SeqSum(s) == IF s = <<>> THEN 0 ELSE Head(s) + SeqSum(Tail(s))

RECURSIVE SeqSumSq(_)
SeqSumSq(s) == IF s = <<>> THEN 0 ELSE Head(s) * Head(s) + SeqSumSq(Tail(s))

SeqRange(s) == {s[i] : i \in 1..Len(s)}
SeqMin(s) == CHOOSE x \in SeqRange(s) : \A y \in SeqRange(s) : x <= y
SeqMax(s) == CHOOSE x \in SeqRange(s) : \A y \in SeqRange(s) : x >= y

\* the k-th smallest element of a non-empty sequence
KthSmallest(s, k) ==
    CHOOSE v \in SeqRange(s) :
        /\ Cardinality({i \in 1..Len(s) : s[i] < v}) < k
        /\ Cardinality({i \in 1..Len(s) : s[i] <= v}) >= k

\* round(mean(prices), 2), in hundredths
MeanHundredths(prices) == RoundDiv(100 * SeqSum(prices), Len(prices))

\* round(median(prices), 2), in hundredths
MedianHundredths(prices) ==
    LET n == Len(prices)
    IN IF n % 2 = 1 THEN 100 * KthSmallest(prices, (n + 1) \div 2)
       ELSE 50 * (KthSmallest(prices, n \div 2) + KthSmallest(prices, n \div 2 + 1))

\* 1000 * stdev / avg >= k - 1/2 for a window of n prices, where avg is in
\* hundredths and W = n * sum(x^2) - sum(x)^2, that is
\* 4 * 10^10 * W >= ((2k - 1) * avg)^2 * n * (n - 1)
CVAtLeast(k, W, avg, n) ==
    IF k = 0 THEN TRUE
    ELSE FracGeq(W * 10000, (2 * k - 1) * avg * n * (n - 1),
                 (2 * k - 1) * avg, 4000000)

RECURSIVE CVSearch(_, _, _, _, _)
CVSearch(lo, hi, W, avg, n) ==
    IF lo >= hi THEN lo
    ELSE LET mid == (lo + hi + 1) \div 2
         IN IF CVAtLeast(mid, W, avg, n)
            THEN CVSearch(mid, hi, W, avg, n)
            ELSE CVSearch(lo, mid - 1, W, avg, n)

\* round(stdev(prices) / avg, 3), in thousandths; the coefficient of variation
\* of prices between 60 and 100 is below 1
Volatility(prices, avg) ==
    LET n == Len(prices)
        sum == SeqSum(prices)
        W == n * SeqSumSq(prices) - sum * sum
    IN CVSearch(0, 1000, W, avg, n)

\* the trend over the last three prices of the 30-day window
Trend(prices) ==
    LET n == Len(prices)
        first == prices[n - 2]
        last == prices[n]
    IN IF 100 * last < 95 * first THEN "down"
       ELSE IF 100 * last > 105 * first THEN "up"
       ELSE "stable"

\* the threshold _detect_drop selects, in percent
DropThreshold(price_volatility) ==
    IF price_volatility # NoneVal /\ price_volatility # 0
          /\ price_volatility > VOLATILITY_THRESHOLD
    THEN DROP_THRESHOLD_VOLATILE
    ELSE IF price_volatility # NoneVal /\ price_volatility # 0
          /\ price_volatility < StableCutoff
    THEN DROP_THRESHOLD_STABLE
    ELSE DROP_THRESHOLD_DEFAULT

\* current_price <= reference * (1 - threshold), for a reference that is set
\* and positive
\* variant: the comparison against the reference turned around
AboveReference(current_price, reference, threshold) ==
    /\ reference # NoneVal
    /\ reference # 0
    /\ reference > 0
    /\ 100 * current_price >= reference * (100 - threshold)

BelowReference(current_price, reference, threshold) ==
    /\ reference # NoneVal
    /\ reference # 0
    /\ reference > 0
    /\ 100 * current_price <= reference * (100 - threshold)

\* round((1 - current_price / reference) * 100, 1), in tenths of a percent
DropPercent(current_price, reference) ==
    RoundDiv(1000 * (reference - current_price), reference)

NoDrop == [is_drop |-> FALSE, drop_percent |-> NoneVal]

\* variant: the previous price is tried before the 30-day floor
_detect_drop_previous_first(current_price, st) ==
    LET threshold == DropThreshold(st.price_volatility)
    IN IF BelowReference(current_price, st.previous_price, threshold)
       THEN [is_drop |-> TRUE,
             drop_percent |-> DropPercent(current_price, st.previous_price)]
       ELSE IF BelowReference(current_price, st.min_price_30d, threshold)
       THEN [is_drop |-> TRUE,
             drop_percent |-> DropPercent(current_price, st.min_price_30d)]
       ELSE NoDrop

\* variant: only the 30-day floor is tried
_detect_drop_floor_only(current_price, st) ==
    LET threshold == DropThreshold(st.price_volatility)
    IN IF BelowReference(current_price, st.min_price_30d, threshold)
       THEN [is_drop |-> TRUE,
             drop_percent |-> DropPercent(current_price, st.min_price_30d)]
       ELSE NoDrop

_detect_drop(current_price, st) ==
    LET threshold == DropThreshold(st.price_volatility)
    IN IF BelowReference(current_price, st.min_price_30d, threshold)
       THEN [is_drop |-> TRUE,
             drop_percent |-> DropPercent(current_price, st.min_price_30d)]
       ELSE IF BelowReference(current_price, st.previous_price, threshold)
       THEN [is_drop |-> TRUE,
             drop_percent |-> DropPercent(current_price, st.previous_price)]
       ELSE NoDrop

\* the prices of the rows of a deal observed since day cutoff, zero prices
\* left out (the "if p[0]" filter)
PricesSince(rows, deal_id, cutoff) ==
    LET keep == SelectSeq(rows, LAMBDA r : /\ r.deal_id = deal_id
                                          /\ r.observed_at >= cutoff
                                          /\ r.price # 0)
    IN [i \in 1..Len(keep) |-> keep[i].price]

\* rows is what the session's queries see
_update_price_stats(deal_id, st, rows) ==
    LET prices_30d == PricesSince(rows, deal_id, today - 30)
        prices_7d == PricesSince(rows, deal_id, today - 7)
        avg == MeanHundredths(prices_30d)
        s30 == IF prices_30d = <<>> THEN st
               ELSE [st EXCEPT
                       !.min_price_30d = SeqMin(prices_30d),
                       !.max_price_30d = SeqMax(prices_30d),
                       !.avg_price_30d = avg,
                       !.median_price_30d = MedianHundredths(prices_30d),
                       !.price_volatility =
                           IF Len(prices_30d) > 1 /\ avg > 0
                           THEN Volatility(prices_30d, avg) ELSE @,
                       !.price_trend =
                           IF Len(prices_30d) >= 3 THEN Trend(prices_30d) ELSE @]
    IN IF prices_7d = <<>> THEN s30
       ELSE [s30 EXCEPT !.min_price_7d = SeqMin(prices_7d),
                        !.max_price_7d = SeqMax(prices_7d)]

\* DealPriceStats(...) of the first observation; prices are kept in whole
\* units and the 30-day average and median in hundredths
\* variant: the first price also stored as the previous price
NewStatsWithPrevious(price) ==
    [current_price |-> price, previous_price |-> price,
     min_price_30d |-> price, max_price_30d |-> price,
     avg_price_30d |-> 100 * price, median_price_30d |-> NoneVal,
     min_price_7d |-> NoneVal, max_price_7d |-> NoneVal,
     price_volatility |-> NoneVal, price_trend |-> NoneStr,
     is_price_drop |-> 0, drop_percent |-> NoneVal,
     drop_detected_at |-> NoneVal,
     price_changes_count |-> 0, observations_count |-> 1]

NewStats(price) ==
    [current_price |-> price, previous_price |-> NoneVal,
     min_price_30d |-> price, max_price_30d |-> price,
     avg_price_30d |-> 100 * price, median_price_30d |-> NoneVal,
     min_price_7d |-> NoneVal, max_price_7d |-> NoneVal,
     price_volatility |-> NoneVal, price_trend |-> NoneStr,
     is_price_drop |-> 0, drop_percent |-> NoneVal,
     drop_detected_at |-> NoneVal,
     price_changes_count |-> 0, observations_count |-> 1]

\* variant: every observation of a known deal counts as a change
PriceChangedAlways(price, old_price) == TRUE

\* abs(price - old_price) > 0.01
PriceChanged(price, old_price) ==
    (IF price >= old_price THEN price - old_price ELSE old_price - price) > 0

PriceInit ==
    /\ stats = <<>>
    /\ history = <<>>
    /\ today = 0
    /\ autoflush \in BOOLEAN
    /\ obs_total = 0
    /\ last_obs = {}
    /\ last_cleanup = {}

\* the stats row, the result and the history row of one observation, for a
\* call that read the stats row in table and whose later queries see rows
ObserveOn(table, rows, deal_id, price) ==
    LET is_new == deal_id \notin DOMAIN table
        st == IF is_new THEN NewStats(price) ELSE table[deal_id]
        changed == ~is_new /\ PriceChanged(price, st.current_price)
        moved == IF changed
                 THEN [st EXCEPT !.previous_price = st.current_price,
                                 !.current_price = price,
                                 !.price_changes_count = @ + 1]
                 ELSE st
        result == IF changed THEN _detect_drop(price, moved) ELSE NoDrop
        flagged == IF result.is_drop
                   THEN [moved EXCEPT !.is_price_drop = 1,
                                      !.drop_percent = result.drop_percent,
                                      !.drop_detected_at = today]
                   ELSE moved
        counted == IF is_new THEN NewStats(price)
                   ELSE [flagged EXCEPT !.observations_count = @ + 1]
        row == [deal_id |-> deal_id, price |-> price, observed_at |-> today]
        visible == IF autoflush THEN Append(rows, row) ELSE rows
        final == IF counted.observations_count % 5 = 0 \/ is_new
                 THEN _update_price_stats(deal_id, counted, visible)
                 ELSE counted
    IN [stats |-> final, row |-> row, is_new |-> is_new,
        is_drop |-> result.is_drop, drop_percent |-> result.drop_percent,
        old_price |-> IF is_new THEN NoneVal ELSE st.current_price,
        floor |-> IF is_new THEN NoneVal ELSE st.min_price_30d,
        volatility |-> IF is_new THEN NoneVal ELSE st.price_volatility]

\* a call that runs alone: it reads the committed tables
Observe(deal_id, price) == ObserveOn(stats, history, deal_id, price)

record_price_observation(deal_id, price) ==
    LET o == Observe(deal_id, price)
    IN /\ stats' = Put(stats, deal_id, o.stats)
       /\ history' = Append(history, o.row)
       /\ obs_total' = obs_total + 1
       /\ last_obs' = {[deal_id |-> deal_id, price |-> price,
                        is_new |-> o.is_new, is_drop |-> o.is_drop,
                        drop_percent |-> o.drop_percent,
                        old_price |-> o.old_price, floor |-> o.floor,
                        volatility |-> o.volatility]}
       /\ UNCHANGED <<today, autoflush, last_cleanup>>

cleanup_old_history(days) ==
    LET cutoff == today - days
        kept == SelectSeq(history, LAMBDA r : ~(r.observed_at < cutoff))
    IN /\ history' = kept
       /\ last_cleanup' = {[days |-> days, deleted |-> Len(history) - Len(kept)]}
       /\ UNCHANGED <<stats, today, autoflush, obs_total, last_obs>>

\* DaysPerJump days pass
PassTime ==
    /\ today + DaysPerJump <= MaxJumps * DaysPerJump
    /\ today' = today + DaysPerJump
    /\ UNCHANGED <<stats, history, autoflush, obs_total, last_obs, last_cleanup>>

RecordDeep ==
    /\ obs_total < MaxObs
    /\ \E price \in Prices : record_price_observation(DeepDeal, price)

RecordObservation ==
    /\ obs_total < MaxRetObs
    /\ \E deal_id \in Deals, price \in RetentionPrices :
          record_price_observation(deal_id, price)

CleanupOldHistory ==
    \E days \in CleanupDays : cleanup_old_history(days)

(***************************************************************************)
(* _detect_drop on a fixed stats row                                       *)
(***************************************************************************)
\* the volatilities of the probed rows: unset, 0, 0.02, 0.1, 0.15 and 0.22
ProbeVolatility == {NoneVal, 0, 20, 100, 150, 220}

\* no row is probed
DetectIdle ==
    /\ probe = [min_price_30d |-> NoneVal, previous_price |-> NoneVal,
                price_volatility |-> NoneVal]
    /\ detected = <<>>

\* a row as _detect_drop receives it: the floor and the previous price are set
DetectInit ==
    /\ probe \in [min_price_30d : Prices, previous_price : Prices,
                  price_volatility : ProbeVolatility]
    /\ detected = <<>>

DetectDrop ==
    \E price \in Prices :
        /\ price \notin DOMAIN detected
        /\ detected' = Put(detected, price, _detect_drop(price, probe))
        /\ UNCHANGED probe

(***************************************************************************)
(* jobs_scraping.scrape_source                                             *)
(***************************************************************************)
COLLECTORS == {"courir", "footlocker", "size", "jdsports"}

ScrapeSources == {"jdsports", UnknownSource}

\* the number of errors discover_products leaves in the result's list
DiscoveryErrors == {0, 1}

\* the status of the result discover_products returns
DiscoveryStatus == {"success", "error", "skipped"}

\* what the body of the try block does for one URL: every call returns, or the
\* collector, persist_deal or record_price_observation raises
ItemOutcomes == {"ok", "collector_error", "persist_error", "record_error"}

\* the max_products the callers pass
MaxProducts == {2, 50}

ScrapePrices == {100}

\* errors[:10]
ErrorCap == 10

IdleJob ==
    [pc |-> "idle", source |-> NoneStr, found |-> 0, n |-> 0, idx |-> 0,
     collected |-> 0, new_deals |-> 0, updated_deals |-> 0, price_drops |-> 0,
     errors |-> <<>>, result_errors |-> <<>>, rows_before |-> 0]

\* result.to_dict() with price_drops_detected; processed, item_errors and
\* rows_added keep the run's locals for the properties
Response(kind, source, status, found, new, updated, errs, drops, n, raised, rows) ==
    [kind |-> kind, source |-> source, status |-> status,
     products_found |-> found, products_new |-> new,
     products_updated |-> updated, errors |-> errs,
     price_drops_detected |-> drops,
     processed |-> n, item_errors |-> raised, rows_added |-> rows]

ScrapeInit ==
    /\ deals = {}
    /\ job = IdleJob
    /\ scrape_result = {}
    /\ scraping_log = <<>>

\* the list errors[:10]
FirstTen(errors) == SubSeq(errors, 1, Min(Len(errors), ErrorCap))

\* variant: a run that collected nothing is not an error
FinalStatusLenient(collected, errors) ==
    IF errors = <<>> THEN "success" ELSE "partial"

\* variant: a run that collected anything is a success
FinalStatusNoPartial(collected, errors) ==
    IF collected > 0 THEN "success" ELSE "error"

\* "success" if not errors else "partial", when collected > 0; else "error"
FinalStatus(collected, errors) ==
    IF collected > 0
    THEN (IF errors = <<>> THEN "success" ELSE "partial")
    ELSE "error"

\* scrape_source up to the loop: the collector lookup and the discovery
ScrapeStart(source, status, found, disc_errors, max_products) ==
    /\ job.pc = "idle"
    /\ UNCHANGED <<deals, stats, history, obs_total, last_obs>>
    /\ IF source \notin COLLECTORS
       THEN /\ scrape_result' =
                 {Response("no_collector", source, "error", 0, 0, 0, <<>>, 0,
                           0, <<>>, 0)}
            /\ UNCHANGED <<job, scraping_log>>
       ELSE IF status \in {"error", "skipped"}
       THEN LET result == Response("discovery", source, status, found, 0, 0,
                                   [i \in 1..disc_errors |-> 0], 0,
                                   0, <<>>, 0)
            IN /\ scraping_log' = Append(scraping_log, result)
               /\ scrape_result' = {result}
               /\ UNCHANGED job
       ELSE /\ job' = [IdleJob EXCEPT
                          !.pc = "collecting", !.source = source,
                          !.found = found, !.n = Min(found, max_products),
                          !.result_errors = [i \in 1..disc_errors |-> 0],
                          !.rows_before = Len(history)]
            /\ UNCHANGED <<scrape_result, scraping_log>>

\* persist_deal(item): the deal of the URL number url has the id url; it is
\* created when no deal has the id and updated otherwise
persist_deal(stored, url) ==
    [deals |-> stored \cup {url}, id |-> url,
     action |-> IF url \in stored THEN "updated" ELSE "created"]

\* one iteration of the loop over urls_to_process
ScrapeItem(outcome, price) ==
    /\ job.pc = "collecting"
    /\ job.idx < job.n
    /\ UNCHANGED <<scrape_result, scraping_log>>
    /\ LET url == job.idx + 1
           persist_result == persist_deal(deals, url)
           deal_id == persist_result.id
           created == persist_result.action = "created"
           persisted == [job EXCEPT
                            !.idx = url,
                            !.collected = @ + 1,
                            !.new_deals = IF created THEN @ + 1 ELSE @,
                            !.updated_deals = IF created THEN @ ELSE @ + 1]
       IN CASE outcome \in {"collector_error", "persist_error"} ->
                 /\ job' = [job EXCEPT !.idx = url,
                                       !.errors = Append(@, url)]
                 /\ UNCHANGED <<deals, stats, history, obs_total, last_obs>>
            [] outcome = "record_error" ->
                 /\ deals' = persist_result.deals
                 /\ job' = [persisted EXCEPT !.errors = Append(@, url)]
                 /\ UNCHANGED <<stats, history, obs_total, last_obs>>
            [] outcome = "ok" ->
                 /\ deals' = persist_result.deals
                 /\ record_price_observation(deal_id, price)
                 /\ job' = [persisted EXCEPT
                               !.price_drops =
                                   IF Observe(deal_id, price).is_drop
                                   THEN @ + 1 ELSE @]

\* scrape_source after the loop: the result is completed and logged
ScrapeFinish ==
    /\ job.pc = "collecting"
    /\ job.idx = job.n
    /\ LET result == Response("run", job.source,
                              FinalStatus(job.collected, job.errors),
                              job.found, job.new_deals, job.updated_deals,
                              job.result_errors \o FirstTen(job.errors),
                              job.price_drops,
                              job.n, job.errors,
                              Len(history) - job.rows_before)
       IN /\ scraping_log' = Append(scraping_log, result)
          /\ scrape_result' = {result}
    /\ job' = IdleJob
    /\ UNCHANGED <<deals, stats, history, obs_total, last_obs>>

StartScrape ==
    /\ Len(scraping_log) < MaxRuns
    /\ \E source \in ScrapeSources, status \in DiscoveryStatus,
          found \in 0..MaxUrls, disc_errors \in DiscoveryErrors,
          max_products \in MaxProducts :
            ScrapeStart(source, status, found, disc_errors, max_products)

CollectItem ==
    \E outcome \in ItemOutcomes, price \in ScrapePrices :
        ScrapeItem(outcome, price)

\* a discovery that returns up to MaxFailingUrls URLs and does not end the run
StartFailingScrape ==
    /\ Len(scraping_log) < MaxRuns
    /\ \E found \in 0..MaxFailingUrls, disc_errors \in DiscoveryErrors,
          max_products \in MaxProducts :
            ScrapeStart("jdsports", "success", found, disc_errors, max_products)

\* an iteration whose collector or persist_deal raises
FailItem ==
    \E outcome \in {"collector_error", "persist_error"}, price \in ScrapePrices :
        ScrapeItem(outcome, price)

(***************************************************************************)
(* ScrapingOrchestrator._save_products_with_count                          *)
(***************************************************************************)
SourceIds == {1, 2}

ExternalIds == {"a", "b"}

SalePrices == {85, 100}

\* a ScrapedProduct: the fields the lookup and the update read
Products == [external_id : ExternalIds, sale_price : SalePrices]

ProductLists == UNION {[1..n -> Products] : n \in 0..MaxListLen}

\* select(Deal).where(source_id == source.id).where(external_id ==
\* product.external_id): the keys of the rows found.  The session autoflushes,
\* so a Deal added earlier in the loop is among the rows.
FindDeal(table, source_id, external_id) ==
    {k \in DOMAIN table : k[1] = source_id /\ k[2] = external_id}

\* variant: the update branch without its continue, so an existing deal is
\* also handed to the create branch
SaveProductNoContinue(acc, source_id, product) ==
    LET key == <<source_id, product.external_id>>
    IN IF FindDeal(acc.table, source_id, product.external_id) # {}
       THEN [table |-> [acc.table EXCEPT ![key] = product.sale_price],
             new_deals |-> Append(acc.new_deals, key),
             updated_count |-> acc.updated_count + 1]
       ELSE [table |-> Put(acc.table, key, product.sale_price),
             new_deals |-> Append(acc.new_deals, key),
             updated_count |-> acc.updated_count]

\* the body of the loop for one product
SaveProduct(acc, source_id, product) ==
    LET key == <<source_id, product.external_id>>
    IN IF FindDeal(acc.table, source_id, product.external_id) # {}
       THEN [table |-> [acc.table EXCEPT ![key] = product.sale_price],
             new_deals |-> acc.new_deals,
             updated_count |-> acc.updated_count + 1]
       ELSE [table |-> Put(acc.table, key, product.sale_price),
             new_deals |-> Append(acc.new_deals, key),
             updated_count |-> acc.updated_count]

RECURSIVE SaveLoop(_, _, _)
SaveLoop(acc, source_id, products) ==
    IF products = <<>> THEN acc
    ELSE SaveLoop(SaveProduct(acc, source_id, Head(products)), source_id,
                  Tail(products))

SaveIdle ==
    /\ deal_table = <<>>
    /\ save_calls = 0
    /\ last_save = {}

\* the deals earlier runs have stored
SaveInit ==
    /\ \E keys \in SUBSET (SourceIds \X ExternalIds) :
          deal_table = [k \in keys |-> 100]
    /\ save_calls = 0
    /\ last_save = {}

_save_products_with_count(products, source_id) ==
    LET done == SaveLoop([table |-> deal_table, new_deals |-> <<>>,
                          updated_count |-> 0], source_id, products)
    IN /\ deal_table' = done.table
       /\ save_calls' = save_calls + 1
       /\ last_save' = {[source_id |-> source_id, products |-> products,
                         new_deals |-> done.new_deals,
                         updated_count |-> done.updated_count,
                         deals_before |-> Cardinality(DOMAIN deal_table),
                         deals_after |-> Cardinality(DOMAIN done.table),
                         repeats |-> \E f \in last_save :
                                        /\ f.source_id = source_id
                                        /\ f.products = products,
                         call |-> save_calls + 1]}

SaveProducts ==
    /\ save_calls < MaxSaves
    /\ \E source_id \in SourceIds, products \in ProductLists :
          _save_products_with_count(products, source_id)

(***************************************************************************)
(* ScrapingOrchestrator.run_all_scrapers (services/scraping_orchestrator.py)*)
(*                                                                         *)
(* One call: the source runs are tasks handed to asyncio.gather, each      *)
(* behind the call's semaphore.  A task is "pending" until it holds the    *)
(* semaphore, then "entered", "started" (its ScrapingLog is added),        *)
(* "in_progress" (awaiting scraper.run()), and ends "returned", "raised"   *)
(* or "cancelled".                                                         *)
(***************************************************************************)
\* the scraper registry, two of its entries
SCRAPERS == {"nike", "adidas"}

\* the slug of an active Source row that has no scraper in the registry
UnregisteredSlug == "vinted"

SourceSlugs == SCRAPERS \cup {UnregisteredSlug}

\* settings.MAX_CONCURRENT_SCRAPERS, its default
MAX_CONCURRENT_SCRAPERS == 3

\* the values the environment may set it to
ConcurrencyLimits == 1 .. MAX_CONCURRENT_SCRAPERS

\* the attributes of the settings object the orchestrator's reads may hit
SettingsFields ==
    {"MAX_CONCURRENT_SCRAPERS", "USE_ROTATING_PROXY", "PROXY_URL",
     "DISCORD_WEBHOOK_URL", "MIN_FLIP_SCORE"}

\* settings.MIN_FLIP_SCORE, its default
MIN_FLIP_SCORE == 60

\* the flip scores a scored deal may get
FlipScores == {50, 80}

\* what the Discord webhook does with a post; "unset" is an empty
\* DISCORD_WEBHOOK_URL
Webhooks == {"unset", "ok", "refused", "unreachable"}

\* what the steps before the ScrapingLog is added may do
SetupOutcomes == {"ok", "source_error", "proxy_error"}

\* what scraper.run() and the save may do: return, with the number of
\* products and of new deals, or raise
RunOutcomes ==
    {[raised |-> FALSE, scraped |-> 0, new_deals |-> 0],
     [raised |-> FALSE, scraped |-> 2, new_deals |-> 1],
     [raised |-> TRUE, scraped |-> 0, new_deals |-> 0]}

\* the lists active_sources may be: slugs of active Source rows, in the order
\* of the request, repeated when the request repeats them
ActiveSourceLists ==
    UNION {[1 .. n -> SourceSlugs] : n \in 1 .. MaxBatch}

BatchIdle ==
    /\ batch = [pc |-> "idle", active_sources |-> <<>>, max_concurrent |-> 0,
                send_alerts |-> FALSE, webhook |-> "unset"]
    /\ semaphore = 0
    /\ task = <<>>
    /\ scraping_logs = <<>>
    /\ error_count = [s \in SourceSlugs |-> NoneVal]
    /\ batch_result = {}

Running(i) == task[i].pc \in {"entered", "started", "in_progress"}

Ended(i) == task[i].pc \in {"returned", "raised", "cancelled"}

\* run_all_scrapers up to the gather: the semaphore and one task per entry
run_all_scrapers(sources, limit) ==
    /\ batch.pc = "idle"
    /\ batch' = [batch EXCEPT !.pc = "gather", !.active_sources = sources,
                              !.max_concurrent = limit]
    /\ semaphore' = limit
    /\ task' = [i \in 1 .. Len(sources) |->
                   [source |-> sources[i], pc |-> "pending", log |-> 0,
                    scraped |-> 0, new_deals |-> 0]]
    /\ UNCHANGED <<scraping_logs, error_count, batch_result>>

\* variant: the run starts without waiting for the semaphore
run_without_semaphore(i) ==
    /\ batch.pc = "gather"
    /\ task[i].pc = "pending"
    /\ semaphore' = semaphore - 1
    /\ task' = [task EXCEPT ![i].pc = "entered"]
    /\ UNCHANGED <<batch, scraping_logs, error_count, batch_result>>

\* async with semaphore: the task enters when the semaphore's value is positive
run_with_semaphore(i) ==
    /\ batch.pc = "gather"
    /\ task[i].pc = "pending"
    /\ semaphore > 0
    /\ semaphore' = semaphore - 1
    /\ task' = [task EXCEPT ![i].pc = "entered"]
    /\ UNCHANGED <<batch, scraping_logs, error_count, batch_result>>

\* _run_single_scraper up to the flush of the new ScrapingLog: the registry
\* lookup, the source record, the proxy, then the log with status STARTED
RunSetup(i, outcome) ==
    /\ batch.pc = "gather"
    /\ task[i].pc = "entered"
    /\ IF task[i].source \notin SCRAPERS \/ outcome # "ok"
       THEN /\ task' = [task EXCEPT ![i].pc = "raised"]
            /\ semaphore' = semaphore + 1
            /\ UNCHANGED scraping_logs
       ELSE /\ scraping_logs' =
                   Append(scraping_logs,
                          [source_slug |-> task[i].source, status |-> "started",
                           run |-> i])
            /\ task' = [task EXCEPT ![i].pc = "started",
                                    ![i].log = Len(scraping_logs) + 1]
            /\ UNCHANGED semaphore
    /\ UNCHANGED <<batch, error_count, batch_result>>

\* variant: the try block starts without the status change
RunProgressUnmarked(i) ==
    /\ batch.pc = "gather"
    /\ task[i].pc = "started"
    /\ task' = [task EXCEPT ![i].pc = "in_progress"]
    /\ UNCHANGED <<batch, semaphore, scraping_logs, error_count, batch_result>>

\* the first statements of the try block: status IN_PROGRESS, flushed
RunProgress(i) ==
    /\ batch.pc = "gather"
    /\ task[i].pc = "started"
    /\ scraping_logs' = [scraping_logs EXCEPT ![task[i].log].status = "in_progress"]
    /\ task' = [task EXCEPT ![i].pc = "in_progress"]
    /\ UNCHANGED <<batch, semaphore, error_count, batch_result>>

\* _update_source_stats: the failure branch reads source.error_count, which
\* the Source object has only after a success branch has assigned it
_update_source_stats(source, success) ==
    IF success THEN [raised |-> FALSE, error_count |-> 0]
    ELSE IF error_count[source] = NoneVal
         THEN [raised |-> TRUE, error_count |-> NoneVal]
         ELSE [raised |-> FALSE, error_count |-> error_count[source] + 1]

\* the rest of _run_single_scraper: scraper.run() and the save return or
\* raise, the except block, the finally block, the release of the semaphore
RunFinish(i, outcome) ==
    /\ batch.pc = "gather"
    /\ task[i].pc = "in_progress"
    /\ LET source == task[i].source
           upd == _update_source_stats(source, ~outcome.raised)
       IN /\ error_count' = [error_count EXCEPT ![source] = upd.error_count]
          /\ IF ~outcome.raised
             THEN /\ scraping_logs' =
                         [scraping_logs EXCEPT ![task[i].log].status = "completed"]
                  /\ task' = [task EXCEPT ![i].pc = "returned",
                                          ![i].scraped = outcome.scraped,
                                          ![i].new_deals = outcome.new_deals]
             ELSE /\ scraping_logs' =
                         IF upd.raised THEN scraping_logs
                         ELSE [scraping_logs EXCEPT ![task[i].log].status = "failed"]
                  /\ task' = [task EXCEPT ![i].pc = "raised"]
    /\ semaphore' = semaphore + 1
    /\ UNCHANGED <<batch, batch_result>>

RECURSIVE TaskSum(_, _)
TaskSum(field, n) ==
    IF n = 0 THEN 0
    ELSE TaskSum(field, n - 1) +
         (IF task[n].pc = "returned" THEN task[n][field] ELSE 0)

\* the entry of by_source for a name: that of the last run of the name
LastRun(name) ==
    CHOOSE i \in DOMAIN task :
        /\ task[i].source = name
        /\ \A j \in DOMAIN task : task[j].source = name => j <= i

\* _send_alerts over the flip scores of the scored deals: the threshold is
\* read from settings.min_flip_score for the first scored deal
RECURSIVE DeliverAlerts(_, _)
DeliverAlerts(scores, webhook) ==
    IF scores = <<>> THEN [alerts_sent |-> 0, attempted |-> 0]
    ELSE LET rest == DeliverAlerts(Tail(scores), webhook)
         IN IF Head(scores) < MIN_FLIP_SCORE \/ webhook = "unset" THEN rest
            ELSE [alerts_sent |-> rest.alerts_sent +
                                  (IF webhook = "ok" THEN 1 ELSE 0),
                  attempted |-> rest.attempted + 1]

_send_alerts(scores, webhook) ==
    IF scores = <<>> THEN [raised |-> FALSE, alerts_sent |-> 0, attempted |-> 0]
    ELSE IF "min_flip_score" \notin SettingsFields
         THEN [raised |-> TRUE, alerts_sent |-> 0, attempted |-> 0]
         ELSE [raised |-> FALSE] @@ DeliverAlerts(scores, webhook)

\* run_all_scrapers after the gather: the results of the runs, the scoring of
\* the new deals (scores: the flip scores of the deals whose scoring did not
\* raise) and the alerts; send_alerts is the argument of the call, first read
\* here, webhook what the Discord webhook does with the posts
ProcessResults(scores, send_alerts, webhook) ==
    /\ batch.pc = "gather"
    /\ \A i \in DOMAIN task : task[i].pc \in {"returned", "raised"}
    /\ Len(scores) <= TaskSum("new_deals", Len(task))
    /\ LET all_new_deals == TaskSum("new_deals", Len(task))
           names == {task[i].source : i \in DOMAIN task}
           alerting == all_new_deals > 0 /\ send_alerts
           sent == IF alerting THEN _send_alerts(scores, webhook)
                   ELSE [raised |-> FALSE, alerts_sent |-> 0, attempted |-> 0]
       IN /\ batch_result' =
                {[raised |-> sent.raised,
                  total_scraped |-> TaskSum("scraped", Len(task)),
                  total_new_deals |-> all_new_deals,
                  total_scored |-> Len(scores),
                  scores |-> scores,
                  alerts_sent |-> sent.alerts_sent,
                  attempted |-> sent.attempted,
                  errors |-> SelectSeq([i \in DOMAIN task |-> i],
                                       LAMBDA i : task[i].pc = "raised"),
                  by_source |-> [name \in names |->
                                    IF task[LastRun(name)].pc = "raised"
                                    THEN "error" ELSE "success"]]}
          /\ batch' = [batch EXCEPT !.pc = IF sent.raised THEN "raised"
                                           ELSE "returned",
                                    !.send_alerts = send_alerts,
                                    !.webhook = webhook]
    /\ UNCHANGED <<semaphore, task, scraping_logs, error_count>>

\* the task awaiting the gather is cancelled: every run still pending or
\* running gets CancelledError at its await, which no except block of
\* _run_single_scraper catches; its finally block commits the log as it is
CancelBatch ==
    /\ batch.pc = "gather"
    /\ \E i \in DOMAIN task : ~Ended(i)
    /\ task' = [i \in DOMAIN task |->
                   IF Ended(i) THEN task[i]
                   ELSE [task[i] EXCEPT !.pc = "cancelled"]]
    /\ semaphore' = semaphore + Cardinality({i \in DOMAIN task : Running(i)})
    /\ batch' = [batch EXCEPT !.pc = "cancelled"]
    /\ UNCHANGED <<scraping_logs, error_count, batch_result>>

StartBatch ==
    \E sources \in ActiveSourceLists, limit \in ConcurrencyLimits :
        run_all_scrapers(sources, limit)

EnterRun == \E i \in DOMAIN task : run_with_semaphore(i)

SetupRun == \E i \in DOMAIN task, outcome \in SetupOutcomes : RunSetup(i, outcome)

ProgressRun == \E i \in DOMAIN task : RunProgress(i)

FinishRun == \E i \in DOMAIN task, outcome \in RunOutcomes : RunFinish(i, outcome)

FinishBatch ==
    \E scores \in UNION {[1 .. n -> FlipScores] : n \in 0 .. MaxBatch},
       send_alerts \in BOOLEAN, webhook \in Webhooks :
        ProcessResults(scores, send_alerts, webhook)

(***************************************************************************)
(* Two overlapping runs of one source: the manual run on the session of    *)
(* its request (routers/scraping.py, trigger_scraping) and the scheduled   *)
(* run on the session of scraping_job, each in its own transaction, both   *)
(* in _save_products_with_count.  A statement sees the rows committed      *)
(* before it and the rows its own session has flushed; the table's         *)
(* constraint uq_source_external is checked when a row is flushed.         *)
(***************************************************************************)
Sessions == {"manual", "scheduled"}

Other(s) == CHOOSE o \in Sessions : o # s

\* the lists of external ids one run may collect
OverlapLists == UNION {[1 .. n -> ExternalIds] : n \in 1 .. MaxOverlapLen}

SessionIdle ==
    [pc |-> "idle", products |-> <<>>, pending |-> {}, flushed |-> {},
     new_deals |-> 0, updated_count |-> 0]

OverlapIdle ==
    /\ deal_rows = {}
    /\ session = [s \in Sessions |-> SessionIdle]

\* the deals earlier runs have committed
OverlapInit ==
    /\ \E ids \in SUBSET ExternalIds :
          deal_rows = {[external_id |-> e, session |-> "earlier"] : e \in ids}
    /\ session = [s \in Sessions |-> SessionIdle]

IdsOf(rows) == {r.external_id : r \in rows}

\* the rows a statement of session s sees
Visible(s) == IdsOf(deal_rows) \cup session[s].flushed

\* the INSERT of a pending row waits while the other transaction holds a
\* flushed, uncommitted row with the same key
InsertWaits(s) == session[s].pending \cap session[Other(s)].flushed # {}

\* uq_source_external: the INSERT fails when a visible row has the key
InsertFails(s) == session[s].pending \cap Visible(s) # {}

\* the run enters _save_products_with_count with its list
SaveBegin(s, products) ==
    /\ session[s].pc = "idle"
    /\ session' = [session EXCEPT ![s].pc = "loop", ![s].products = products]
    /\ UNCHANGED deal_rows

\* one iteration of the loop: the select (which first flushes the pending
\* row), then the update of the deal found or the add of a new one
SaveIteration(s) ==
    /\ session[s].pc = "loop"
    /\ session[s].products # <<>>
    /\ ~InsertWaits(s)
    /\ LET me == session[s]
           id == Head(me.products)
           seen == Visible(s) \cup me.pending
       IN session' =
             [session EXCEPT ![s] =
                 IF InsertFails(s)
                 THEN [me EXCEPT !.pc = "failed", !.pending = {}, !.flushed = {}]
                 ELSE IF id \in seen
                      THEN [me EXCEPT !.products = Tail(me.products),
                                      !.flushed = me.flushed \cup me.pending,
                                      !.pending = {},
                                      !.updated_count = me.updated_count + 1]
                      ELSE [me EXCEPT !.products = Tail(me.products),
                                      !.flushed = me.flushed \cup me.pending,
                                      !.pending = {id},
                                      !.new_deals = me.new_deals + 1]]
    /\ UNCHANGED deal_rows

\* the flush that ends _save_products_with_count
SaveFlush(s) ==
    /\ session[s].pc = "loop"
    /\ session[s].products = <<>>
    /\ ~InsertWaits(s)
    /\ LET me == session[s]
       IN session' =
             [session EXCEPT ![s] =
                 IF InsertFails(s)
                 THEN [me EXCEPT !.pc = "failed", !.pending = {}, !.flushed = {}]
                 ELSE [me EXCEPT !.pc = "flushed",
                                 !.flushed = me.flushed \cup me.pending,
                                 !.pending = {}]]
    /\ UNCHANGED deal_rows

\* the commit in the finally block of _run_single_scraper
SaveCommit(s) ==
    /\ session[s].pc = "flushed"
    /\ deal_rows' = deal_rows \cup
                    {[external_id |-> e, session |-> s] : e \in session[s].flushed}
    /\ session' = [session EXCEPT ![s].pc = "done", ![s].flushed = {}]

BeginSave == \E s \in Sessions, products \in OverlapLists : SaveBegin(s, products)

IterateSave == \E s \in Sessions : SaveIteration(s)

FlushSave == \E s \in Sessions : SaveFlush(s)

CommitSave == \E s \in Sessions : SaveCommit(s)

(***************************************************************************)
(* jobs_scraping.scheduled_scraping over the shared SmartScheduler: two    *)
(* invocations, each taking its jobs from get_next_jobs and reporting each *)
(* scrape job with mark_completed once scrape_source has returned.         *)
(***************************************************************************)
Invocations == {1, 2}

\* LayerConfig.priority of DEFAULT_LAYER_CONFIGS
LayerPriority(layer) == IF layer = "category" THEN 2 ELSE 1

\* the order in which get_next_jobs visits schedules and layers
SourceOrder == <<"jdsports", "size">>
LayerOrder == <<"seed", "category", "watchlist">>

\* the layers for which SOURCE_LAYER_URLS holds URLs of the source
SOURCE_LAYER_URLS(source) ==
    IF source \in Sources THEN {"seed", "category"} ELSE {}

\* variant: due only once more than the interval has passed
IsDueLater(source, layer) ==
    \/ last_scrape[source][layer] = NoneVal
    \/ now - last_scrape[source][layer] > ConfigInterval(source, layer)

\* last is None or (now - last) >= timedelta(minutes=config.interval_minutes)
IsDue(source, layer) ==
    \/ last_scrape[source][layer] = NoneVal
    \/ now - last_scrape[source][layer] >= ConfigInterval(source, layer)

\* the jobs list before the sort: the watchlist job when there are deals to
\* watch, then the due layers, source by source
CandidateJobs(watching) ==
    LET all == [k \in 1 .. Len(SourceOrder) * Len(LayerOrder) |->
                   [type |-> "scrape",
                    source |-> SourceOrder[((k - 1) \div Len(LayerOrder)) + 1],
                    layer |-> LayerOrder[((k - 1) % Len(LayerOrder)) + 1]]]
        due == SelectSeq(all, LAMBDA j : /\ j.layer # "watchlist"
                                         /\ IsDue(j.source, j.layer)
                                         /\ j.layer \in SOURCE_LAYER_URLS(j.source))
        watch == [type |-> "watchlist", source |-> NoneStr, layer |-> "watchlist"]
    IN IF watching THEN <<watch>> \o due ELSE due

\* variant: the jobs in the order they were appended, truncated
get_next_jobs_unsorted(max_jobs, watching) ==
    LET jobs == CandidateJobs(watching)
    IN SubSeq(jobs, 1, Min(max_jobs, Len(jobs)))

\* jobs.sort(key=priority), a stable sort over the priorities 1 and 2, then
\* jobs[:max_jobs]
get_next_jobs(max_jobs, watching) ==
    LET jobs == CandidateJobs(watching)
        sorted == SelectSeq(jobs, LAMBDA j : LayerPriority(j.layer) = 1)
                  \o SelectSeq(jobs, LAMBDA j : LayerPriority(j.layer) = 2)
    IN SubSeq(sorted, 1, Min(max_jobs, Len(sorted)))

\* the status of the result scrape_source returns: one that counts as a
\* success ("success" and "skipped" are reported like "partial") and "error"
JobStatuses == {"partial", "error"}

\* max_jobs, watching and emitted keep the argument, the watchlist reading
\* and the unsorted jobs list of the invocation's get_next_jobs call, selected
\* the list it returned; started
\* counts the jobs the loop has begun and reports lists its mark_completed
\* calls, each with the number of its job and the status of the job's result
JobsIdle ==
    invocation = [w \in Invocations |->
                     [pc |-> "idle", jobs |-> <<>>, max_jobs |-> 0,
                      watching |-> FALSE, emitted |-> <<>>,
                      selected |-> <<>>, started |-> 0, reports |-> <<>>]]

\* scheduled_scraping up to the loop: the jobs of get_next_jobs(max_jobs=3)
TakeJobs(w, watching) ==
    /\ invocation[w].pc = "idle"
    /\ invocation' = [invocation EXCEPT
                         ![w] = [pc |-> "running",
                                 jobs |-> get_next_jobs(3, watching),
                                 max_jobs |-> 3, watching |-> watching,
                                 emitted |-> CandidateJobs(watching),
                                 selected |-> get_next_jobs(3, watching),
                                 started |-> 0, reports |-> <<>>]]
    /\ UNCHANGED schedVars

\* one iteration of the loop: the watchlist job, or scrape_source followed by
\* the report of its outcome, success being status != "error"
RunJob(w, status, new_products) ==
    /\ invocation[w].pc = "running"
    /\ invocation[w].jobs # <<>>
    /\ LET j == Head(invocation[w].jobs)
           n == invocation[w].started + 1
           success == status # "error"
       IN IF j.type = "watchlist"
          THEN /\ UNCHANGED schedVars
               /\ invocation' = [invocation EXCEPT ![w].jobs = Tail(@),
                                                   ![w].started = n]
          ELSE /\ mark_completed(j.source, j.layer, success, new_products)
               /\ invocation' =
                    [invocation EXCEPT
                        ![w].jobs = Tail(@),
                        ![w].started = n,
                        ![w].reports =
                            Append(@, [job |-> n, source |-> j.source,
                                       layer |-> j.layer, success |-> success,
                                       status |-> status])]

\* an iteration in which scrape_source raises: nothing in scheduled_scraping
\* catches the exception, which ends the invocation
RunJobRaises(w) ==
    /\ invocation[w].pc = "running"
    /\ invocation[w].jobs # <<>>
    /\ Head(invocation[w].jobs).type = "scrape"
    /\ invocation' = [invocation EXCEPT ![w].pc = "raised",
                                        ![w].jobs = <<>>,
                                        ![w].started = @ + 1]
    /\ UNCHANGED schedVars

\* scheduled_scraping returns
ReturnJobs(w) ==
    /\ invocation[w].pc = "running"
    /\ invocation[w].jobs = <<>>
    /\ invocation' = [invocation EXCEPT ![w].pc = "done"]
    /\ UNCHANGED schedVars

\* TickMinutes minutes pass
Tick ==
    /\ now + TickMinutes <= MaxTicks * TickMinutes
    /\ now' = now + TickMinutes
    /\ UNCHANGED <<interval_minutes, last_scrape, success_rate,
                   avg_new_products, calls, last_report, invocation>>

ScheduledScraping ==
    \E w \in Invocations, watching \in BOOLEAN : TakeJobs(w, watching)

\* the run returns a result that reports no new product
ScrapeJob ==
    \E w \in Invocations, status \in JobStatuses : RunJob(w, status, 0)

\* scrape_source raises
ScrapeJobRaises == \E w \in Invocations : RunJobRaises(w)

ScheduledScrapingReturns == \E w \in Invocations : ReturnJobs(w)

(***************************************************************************)
(* AIService._get_recommendation (services/ai_service.py)                  *)
(*                                                                         *)
(* Scores are in tenths of a point (the score is rounded to one decimal),  *)
(* margins in whole percent and euros, confidences in units of 1/2000.     *)
(***************************************************************************)
\* shark scores, in tenths: the range 0..100 around the branch thresholds
SharkScores ==
    {0, 200, 300, 390, 399, 400, 499, 500, 649, 650, 749, 750, 900, 950, 1000}

\* margin percents: a loss, no margin, and the branch thresholds
MarginPercents == {0 - 10, 0, 10, 15, 20, 25}
MarginEuros == {5, 10, 15}
RiskScores == {40, 50}

_get_recommendation(shark_score, margin_percent, margin_euro, risk_score) ==
    IF /\ shark_score >= 750 /\ margin_percent >= 25
       /\ margin_euro >= 15 /\ risk_score >= 50
    THEN [action |-> "buy", confidence |-> Min(1900, 2 * shark_score)]
    ELSE IF shark_score >= 650 /\ margin_percent >= 20 /\ margin_euro >= 10
    THEN [action |-> "buy", confidence |-> Min(1700, 2 * shark_score)]
    ELSE IF shark_score >= 500 /\ margin_percent >= 15
    THEN [action |-> "watch", confidence |-> 1000 + 2 * (shark_score - 500)]
    ELSE IF shark_score >= 400
    THEN [action |-> "watch", confidence |-> 900]
    ELSE [action |-> "ignore", confidence |-> 600 + shark_score]

RecIdle == recommendation = {}

\* two deals that differ in their score only are analysed
Recommend(s1, s2, margin_percent, margin_euro, risk_score) ==
    /\ recommendation = {}
    /\ recommendation' =
          {[margin_percent |-> margin_percent, margin_euro |-> margin_euro,
            risk_score |-> risk_score, low_score |-> s1, high_score |-> s2,
            low |-> _get_recommendation(s1, margin_percent, margin_euro,
                                        risk_score),
            high |-> _get_recommendation(s2, margin_percent, margin_euro,
                                         risk_score)]}

GetRecommendations ==
    \E s1, s2 \in SharkScores, margin_percent \in MarginPercents,
       margin_euro \in MarginEuros, risk_score \in RiskScores :
        /\ s1 <= s2
        /\ Recommend(s1, s2, margin_percent, margin_euro, risk_score)

(***************************************************************************)
(* Two record_price_observation calls on one deal, the one of scrape_source *)
(* on its own SessionLocal() session and the one of scrape_watchlist on the *)
(* session of that job, each in its own transaction.  A call reads the      *)
(* stats row, works on what it read and commits; the UPDATE of a commit     *)
(* writes the columns the call changed, and deal_price_stats.deal_id is     *)
(* unique.                                                                  *)
(***************************************************************************)
Callers == {"scrape", "watchlist"}

RacePrices == {60, 85, 100}

\* read holds the stats row the call's query returned, if any; arrival is the
\* call's rank in the order of the calls; base keeps the tables as they were
\* when the first call arrived
CallIdle == [pc |-> "idle", price |-> 0, read |-> {}, arrival |-> 0]

ObserverIdle ==
    observer = [call |-> [c \in Callers |-> CallIdle], base |-> {}]

Arrived == {c \in Callers : observer.call[c].pc # "idle"}

\* observations recorded before the two calls, one after the other
EarlierObservation(price) ==
    /\ Arrived = {}
    /\ obs_total < MaxEarlierObs
    /\ record_price_observation(DeepDeal, price)
    /\ UNCHANGED observer

\* the call starts and its query for the stats row returns
ObservationRead(c, price) ==
    /\ observer.call[c].pc = "idle"
    /\ observer' =
         [call |-> [observer.call EXCEPT
                       ![c] = [pc |-> "read", price |-> price,
                               read |-> IF DeepDeal \in DOMAIN stats
                                        THEN {stats[DeepDeal]} ELSE {},
                               arrival |-> Cardinality(Arrived) + 1]],
          base |-> IF observer.base = {}
                   THEN {[stats |-> stats, history |-> history]}
                   ELSE observer.base]
    /\ UNCHANGED priceVars

\* the columns of row that differ from what the call read, over committed
WriteChanged(committed, read, row) ==
    [f \in DOMAIN committed |-> IF row[f] # read[f] THEN row[f] ELSE committed[f]]

\* the rest of the call, from the branch on is_new to the commit: the INSERT
\* of a second stats row for the deal raises IntegrityError, which the call
\* rolls back and raises again
ObservationCommit(c) ==
    /\ observer.call[c].pc = "read"
    /\ LET me == observer.call[c]
           table == IF me.read = {} THEN <<>>
                    ELSE [d \in {DeepDeal} |-> CHOOSE r \in me.read : TRUE]
           o == ObserveOn(table, history, DeepDeal, me.price)
       IN IF me.read = {} /\ DeepDeal \in DOMAIN stats
          THEN /\ observer' = [observer EXCEPT !.call[c].pc = "failed"]
               /\ UNCHANGED priceVars
          ELSE /\ observer' = [observer EXCEPT !.call[c].pc = "done"]
               /\ stats' =
                    Put(stats, DeepDeal,
                        IF me.read = {} THEN o.stats
                        ELSE WriteChanged(stats[DeepDeal], table[DeepDeal],
                                          o.stats))
               /\ history' = Append(history, o.row)
               /\ obs_total' = obs_total + 1
               /\ UNCHANGED <<today, autoflush, last_obs, last_cleanup>>

RecordEarlier == \E price \in RacePrices : EarlierObservation(price)

ReadStats == \E c \in Callers, price \in RacePrices : ObservationRead(c, price)

CommitObservation == \E c \in Callers : ObservationCommit(c)

(***************************************************************************)
(* scrape_sales of NikeScraper, FootLockerScraper and SizeScraper: the API  *)
(* fetches of one run and the calls of the browser scraping.                *)
(***************************************************************************)
ApiScrapers == {"nike", "footlocker", "size"}

\* what one API request gives: the request or the decoding of its answer
\* raises; the answer holds no product; the answer decodes but is not of the
\* expected shape (a null "pages" or "pagination", a list); products with
\* further pages; products on the last page
FetchFailed == {"transport_error", "parse_error"}
FetchOutcomes == FetchFailed \cup {"empty", "unexpected", "products_more", "products_last"}

\* what one call of the browser scraping gives: products or none, an error
\* of the page (caught inside the call), or get_page raising
BrowserOutcomes == {"products", "none", "page_error", "open_error"}

ScraperIdle ==
    scraper = [pc |-> "idle", name |-> NoneStr, page |-> 0, fetches |-> <<>>,
               browser |-> <<>>]

\* scrape_sales is called
ScrapeSalesStart(name) ==
    /\ scraper.pc = "idle"
    /\ scraper' = [scraper EXCEPT !.pc = "api", !.name = name]

\* one turn of the API loop of NikeScraper and FootLockerScraper: the inner
\* except returns the browser scraping from inside the outer try block, any
\* other exception reaches the outer except
FetchPage(outcome) ==
    /\ scraper.pc = "api"
    /\ scraper.name \in {"nike", "footlocker"}
    /\ outcome = "products_more" => scraper.page + 1 < MaxPages
    /\ scraper' =
         [scraper EXCEPT
             !.page = @ + 1,
             !.fetches = Append(@, outcome),
             !.pc = CASE outcome \in FetchFailed -> "browser_in_try"
                      [] outcome = "unexpected" -> "browser_in_handler"
                      [] outcome = "products_more" -> "api"
                      [] OTHER -> "returned"]

\* the API request of SizeScraper: only a non-empty product list returns,
\* everything else goes on to the browser scraping
FetchSize(outcome) ==
    /\ scraper.pc = "api"
    /\ scraper.name = "size"
    /\ scraper' =
         [scraper EXCEPT
             !.page = @ + 1,
             !.fetches = Append(@, outcome),
             !.pc = IF outcome \in {"products_more", "products_last"}
                    THEN "returned" ELSE "browser_in_try"]

\* where the run goes after a call of the browser scraping: get_page is
\* called outside the try block in NikeScraper and FootLockerScraper, so its
\* exception leaves the call; raised from the outer try block it is caught
\* by the outer except, which calls the browser scraping again
BrowserEnd(name, pc, outcome) ==
    IF outcome = "open_error" /\ name \in {"nike", "footlocker"}
    THEN (IF pc = "browser_in_try" THEN "browser_in_handler" ELSE "raised")
    ELSE "returned"

\* _scrape_via_browser / _scrape_with_browser
ScrapeViaBrowser(outcome) ==
    /\ scraper.pc \in {"browser_in_try", "browser_in_handler"}
    /\ scraper' = [scraper EXCEPT
                      !.browser = Append(@, outcome),
                      !.pc = BrowserEnd(scraper.name, scraper.pc, outcome)]

StartScrapeSales == \E name \in ApiScrapers : ScrapeSalesStart(name)

FetchApi == \E outcome \in FetchOutcomes : FetchPage(outcome) \/ FetchSize(outcome)

BrowserScrape == \E outcome \in BrowserOutcomes : ScrapeViaBrowser(outcome)

(***************************************************************************)
(* ProxyRotator (services/proxy_service.py).  Times are kept as ages in     *)
(* minutes, counted up to the cooldown: last_used is the age of the last    *)
(* mark_used, last_failed that of the last mark_failed (the code keeps no   *)
(* such time), both NoneVal when there was none.                            *)
(***************************************************************************)
ProxyIds == {1, 2}

MAX_FAILS == 3
COOLDOWN_MINUTES == 5

FreshProxy == [fail_count |-> 0, last_used |-> NoneVal, last_failed |-> NoneVal]

\* _proxy_rotator is None
RotatorIdle ==
    rotator = [exists |-> FALSE, webshare_api_url |-> NoneStr,
               initialized |-> FALSE, lock |-> NoneStr,
               loads |-> 0, proxies |-> <<>>, handed |-> {}]

\* a rotator whose proxies are loaded
PoolInit ==
    rotator = [exists |-> TRUE, webshare_api_url |-> "webshare",
               initialized |-> TRUE, lock |-> NoneStr,
               loads |-> 1, proxies |-> [i \in ProxyIds |-> FreshProxy],
               handed |-> {}]

\* variant: a proxy with max_fails failures is skipped for good
CoolingForever(proxy) == proxy.fail_count >= MAX_FAILS

\* proxy.fail_count >= max_fails and proxy.last_used and
\* proxy.last_used > now - cooldown
Cooling(proxy) ==
    /\ proxy.fail_count >= MAX_FAILS
    /\ proxy.last_used # NoneVal
    /\ proxy.last_used < COOLDOWN_MINUTES

\* the proxies _get_available_proxies returns
Available == {i \in DOMAIN rotator.proxies : ~Cooling(rotator.proxies[i])}

\* the pool after _get_available_proxies: fail_count of the proxies it
\* returns is 0 when it had reached max_fails
AfterReset ==
    [i \in DOMAIN rotator.proxies |->
        IF i \in Available /\ rotator.proxies[i].fail_count >= MAX_FAILS
        THEN [rotator.proxies[i] EXCEPT !.fail_count = 0]
        ELSE rotator.proxies[i]]

\* get_random_proxy: with at most five available proxies random.choice
\* draws from all of them; handed keeps what the call returned and the
\* proxy's fields before the call
get_random_proxy(i) ==
    /\ i \in Available
    /\ rotator' =
         [rotator EXCEPT
             !.proxies = [AfterReset EXCEPT ![i].last_used = 0],
             !.handed = {[proxy |-> i,
                          fail_count |-> rotator.proxies[i].fail_count,
                          last_used |-> rotator.proxies[i].last_used,
                          last_failed |-> rotator.proxies[i].last_failed]}]

\* get_random_proxy when no proxy is available: returns None
get_random_proxy_none ==
    /\ Available = {}
    /\ rotator' = [rotator EXCEPT
                      !.handed = {[proxy |-> NoneVal, fail_count |-> 0,
                                   last_used |-> NoneVal,
                                   last_failed |-> NoneVal]}]

\* report_failure(proxy_url): mark_failed
report_failure(i) ==
    /\ rotator.proxies[i].fail_count < MaxFailCount
    /\ rotator' = [rotator EXCEPT
                      !.proxies[i].fail_count = @ + 1,
                      !.proxies[i].last_failed = 0,
                      !.handed = {}]

\* a time t minutes old is t + 1 minutes old a minute later
Older(t) == IF t = NoneVal THEN NoneVal ELSE Min(t + 1, COOLDOWN_MINUTES)

\* a minute passes
PoolMinute ==
    /\ \E i \in DOMAIN rotator.proxies :
          \/ Older(rotator.proxies[i].last_used) # rotator.proxies[i].last_used
          \/ Older(rotator.proxies[i].last_failed) # rotator.proxies[i].last_failed
    /\ rotator' = [rotator EXCEPT
                      !.proxies = [i \in DOMAIN @ |->
                                     [@[i] EXCEPT !.last_used = Older(@),
                                                  !.last_failed = Older(@)]],
                      !.handed = {}]

GetRandomProxy ==
    \/ \E i \in ProxyIds : get_random_proxy(i)
    \/ get_random_proxy_none

ReportFailure == \E i \in ProxyIds : report_failure(i)

(***************************************************************************)
(* get_proxy_rotator (services/proxy_service.py) called by tasks of one    *)
(* event loop.  A task runs until an await suspends it: the only such      *)
(* await on the way is the HTTP request of _load_from_webshare, made while *)
(* the task holds the rotator's lock.                                      *)
(***************************************************************************)
ProxyCallers == {"task1", "task2", "task3"}

\* WEBSHARE_PROXY_URL or PROXY_URL: a Webshare list URL, the URL of a single
\* proxy, or nothing
ProxyUrls == {"webshare", "single", NoneStr}

\* what the request for the Webshare list ends with
LoadOutcomes == {"ok", "http_error", "exception"}

\* initialized and proxies keep what the rotator a call returned was like at
\* the return: its _initialized flag and the length of its list
ProxyCallerIdle ==
    proxy_caller = [c \in ProxyCallers |->
                       [pc |-> "idle", calls |-> 0, initialized |-> FALSE,
                        proxies |-> 0]]

\* get_proxy_rotator up to its return or to the request of
\* _load_from_webshare; url is what the settings hold when the rotator is made
get_proxy_rotator(c, url) ==
    /\ proxy_caller[c].pc \in {"idle", "returned"}
    /\ proxy_caller[c].calls < MaxProxyCalls
    /\ IF rotator.exists
       THEN /\ proxy_caller' =
                 [proxy_caller EXCEPT
                     ![c] = [pc |-> "returned", calls |-> @.calls + 1,
                             initialized |-> rotator.initialized,
                             proxies |-> Cardinality(DOMAIN rotator.proxies)]]
            /\ UNCHANGED rotator
       ELSE LET listed == IF url = "single" THEN [i \in {1} |-> FreshProxy]
                          ELSE <<>>
            IN IF url = "webshare"
               THEN /\ rotator' = [rotator EXCEPT
                                      !.exists = TRUE,
                                      !.webshare_api_url = url,
                                      !.lock = c]
                    /\ proxy_caller' =
                         [proxy_caller EXCEPT ![c].pc = "loading",
                                              ![c].calls = @ + 1]
               ELSE /\ rotator' = [rotator EXCEPT
                                      !.exists = TRUE,
                                      !.proxies = listed,
                                      !.initialized = TRUE]
                    /\ proxy_caller' =
                         [proxy_caller EXCEPT
                             ![c] = [pc |-> "returned", calls |-> @.calls + 1,
                                     initialized |-> TRUE,
                                     proxies |-> Cardinality(DOMAIN listed)]]

\* the request of _load_from_webshare ends: the list is filled when the
\* answer is a 200, initialize sets the flag and releases the lock, and
\* get_proxy_rotator returns
_load_from_webshare(c, outcome) ==
    /\ proxy_caller[c].pc = "loading"
    /\ LET listed == IF outcome = "ok" THEN [i \in ProxyIds |-> FreshProxy]
                      ELSE rotator.proxies
       IN /\ rotator' = [rotator EXCEPT !.proxies = listed,
                                        !.loads = @ + 1,
                                        !.initialized = TRUE,
                                        !.lock = NoneStr]
          /\ proxy_caller' =
               [proxy_caller EXCEPT
                   ![c].pc = "returned", ![c].initialized = TRUE,
                   ![c].proxies = Cardinality(DOMAIN listed)]

GetProxyRotator ==
    \E c \in ProxyCallers, url \in ProxyUrls : get_proxy_rotator(c, url)

LoadFromWebshare ==
    \E c \in ProxyCallers, outcome \in LoadOutcomes :
        _load_from_webshare(c, outcome)

(***************************************************************************)
(* The recommended price band: AIService._calculate_recommended_prices     *)
(* (services/ai_service.py) and ScoringEngine.calculate_recommended_price  *)
(* (services/scoring_service.py).  Prices are in cents.                    *)
(***************************************************************************)
\* the percentiles of the comparables: 0 is a missing value; none of the
\* others puts a product halfway between two cents
PercentilePrices == {0, 1000, 1999, 2000, 2060, 2100, 3000}

PriceEngines == {"ai_service", "scoring_service"}

\* round(price * factor / 100, 2) of a price in cents
RoundCents(price, factor) == RoundDiv(price * factor, 100)

_calculate_recommended_prices(price_p25, price_median, price_p75) ==
    IF price_median = 0
    THEN [aggressive |-> 0, optimal |-> 0, patient |-> 0]
    ELSE [aggressive |-> RoundCents(price_p25, 95),
          optimal |-> RoundCents(price_median, 98),
          patient |-> RoundCents(price_p75, 95)]

calculate_recommended_price(price_p25, price_median, price_p75) ==
    IF price_median = 0
    THEN [aggressive |-> 0, optimal |-> 0, patient |-> 0]
    ELSE [aggressive |-> RoundCents(price_p25, 95),
          optimal |-> RoundCents(price_median, 98),
          patient |-> RoundCents(price_p75, 95)]

BandIdle == band = {}

\* one of the two engines computes the band of a comparables distribution
CalculateRecommendedPrices ==
    \E engine \in PriceEngines, price_p25, price_median, price_p75 \in PercentilePrices :
        band' = {[engine |-> engine, price_p25 |-> price_p25,
                  price_median |-> price_median, price_p75 |-> price_p75,
                  prices |->
                      IF engine = "ai_service"
                      THEN _calculate_recommended_prices(price_p25,
                               price_median, price_p75)
                      ELSE calculate_recommended_price(price_p25,
                               price_median, price_p75)]}

LastIdle == ScraperIdle /\ RotatorIdle /\ ProxyCallerIdle /\ BandIdle

(***************************************************************************)
(* Specifications                                                          *)
(***************************************************************************)
Init ==
    /\ SchedInit /\ PriceInit /\ DetectIdle /\ ScrapeInit /\ SaveIdle
    /\ BatchIdle /\ OverlapIdle /\ JobsIdle /\ RecIdle /\ ObserverIdle /\ LastIdle

\* Init with the session setting fixed, for the specifications that record
\* no observation
QuietInit == Init /\ autoflush

\* the scheduler under every report, to depth MaxCalls
Next ==
    MarkCompleted /\ UNCHANGED <<priceVars, detectVars, scrapeVars, saveVars, laterVars>>

Spec == QuietInit /\ [][Next]_vars

\* the scheduler under repeated reports of one source
DeepNext ==
    /\ MarkCompletedDeep
    /\ UNCHANGED <<priceVars, detectVars, scrapeVars, saveVars, laterVars>>

DeepSpec == QuietInit /\ [][DeepNext]_vars

\* the observations of one deal
PriceNext ==
    RecordDeep /\ UNCHANGED <<schedVars, detectVars, scrapeVars, saveVars, laterVars>>

PriceSpec == Init /\ [][PriceNext]_vars

\* observations, the passing of time and the retention sweep
RetentionFrame == UNCHANGED <<schedVars, detectVars, scrapeVars, saveVars, laterVars>>

RetentionNext ==
    \/ RecordObservation /\ RetentionFrame
    \/ PassTime /\ RetentionFrame
    \/ CleanupOldHistory /\ RetentionFrame

RetentionSpec == Init /\ [][RetentionNext]_vars

\* _detect_drop over the prices, for every stats row
DetectSpecInit ==
    /\ SchedInit /\ PriceInit /\ autoflush
    /\ DetectInit /\ ScrapeInit /\ SaveIdle /\ BatchIdle /\ OverlapIdle
    /\ JobsIdle /\ RecIdle /\ ObserverIdle /\ LastIdle

DetectNext ==
    DetectDrop /\ UNCHANGED <<schedVars, priceVars, scrapeVars, saveVars, laterVars>>

DetectSpec == DetectSpecInit /\ [][DetectNext]_vars

\* scrape_source runs, one after the other
ScrapeFrame ==
    UNCHANGED <<schedVars, detectVars, saveVars, laterVars, today, autoflush,
                last_cleanup>>

ScrapeNext ==
    \/ StartScrape /\ ScrapeFrame
    \/ CollectItem /\ ScrapeFrame
    \/ ScrapeFinish /\ ScrapeFrame

ScrapeSpec == Init /\ [][ScrapeNext]_vars

\* one scrape_source run over a long list in which every item fails
FailingNext ==
    \/ StartFailingScrape /\ ScrapeFrame
    \/ FailItem /\ ScrapeFrame
    \/ ScrapeFinish /\ ScrapeFrame

FailingSpec == Init /\ [][FailingNext]_vars

\* saves of product lists, one after the other
SaveSpecInit ==
    /\ SchedInit /\ PriceInit /\ autoflush
    /\ DetectIdle /\ ScrapeInit /\ SaveInit /\ BatchIdle
    /\ OverlapIdle /\ JobsIdle /\ RecIdle /\ ObserverIdle /\ LastIdle

SaveNext ==
    SaveProducts /\ UNCHANGED <<schedVars, priceVars, detectVars, scrapeVars, laterVars>>

SaveSpec == SaveSpecInit /\ [][SaveNext]_vars

\* one run_all_scrapers call, its source runs interleaved
BatchFrame ==
    UNCHANGED <<schedVars, priceVars, detectVars, scrapeVars, saveVars,
                overlapVars, invocation, recommendation, observer, lastVars>>

BatchNext ==
    \/ StartBatch /\ BatchFrame
    \/ EnterRun /\ BatchFrame
    \/ SetupRun /\ BatchFrame
    \/ ProgressRun /\ BatchFrame
    \/ FinishRun /\ BatchFrame
    \/ FinishBatch /\ BatchFrame
    \/ CancelBatch /\ BatchFrame

BatchSpec == QuietInit /\ [][BatchNext]_vars

\* two overlapping saves of one source, their statements interleaved
OverlapSpecInit ==
    /\ SchedInit /\ PriceInit /\ autoflush
    /\ DetectIdle /\ ScrapeInit /\ SaveIdle /\ BatchIdle /\ OverlapInit
    /\ JobsIdle /\ RecIdle /\ ObserverIdle /\ LastIdle

OverlapFrame ==
    UNCHANGED <<schedVars, priceVars, detectVars, scrapeVars, saveVars,
                batchVars, invocation, recommendation, observer, lastVars>>

OverlapNext ==
    \/ BeginSave /\ OverlapFrame
    \/ IterateSave /\ OverlapFrame
    \/ FlushSave /\ OverlapFrame
    \/ CommitSave /\ OverlapFrame

OverlapSpec == OverlapSpecInit /\ [][OverlapNext]_vars

\* two scheduled_scraping invocations over one scheduler
JobsFrame ==
    UNCHANGED <<priceVars, detectVars, scrapeVars, saveVars, batchVars,
                overlapVars, recommendation, observer, lastVars>>

JobsNext ==
    \/ ScheduledScraping /\ JobsFrame
    \/ ScrapeJob /\ JobsFrame
    \/ ScrapeJobRaises /\ JobsFrame
    \/ ScheduledScrapingReturns /\ JobsFrame
    \/ Tick /\ JobsFrame

JobsSpec == QuietInit /\ [][JobsNext]_vars

\* two record_price_observation calls on one deal, their steps interleaved
RaceFrame ==
    UNCHANGED <<schedVars, detectVars, scrapeVars, saveVars, batchVars,
                overlapVars, invocation, recommendation, lastVars>>

RaceNext ==
    \/ RecordEarlier /\ RaceFrame
    \/ ReadStats /\ RaceFrame
    \/ CommitObservation /\ RaceFrame

RaceSpec == Init /\ [][RaceNext]_vars

FirstFrame ==
    UNCHANGED <<schedVars, priceVars, detectVars, scrapeVars, saveVars,
                batchVars, overlapVars, invocation, recommendation, observer>>

\* one scrape_sales run of a scraper with an API path
ScraperNext ==
    \/ StartScrapeSales /\ FirstFrame /\ UNCHANGED <<rotator, proxy_caller, band>>
    \/ FetchApi /\ FirstFrame /\ UNCHANGED <<rotator, proxy_caller, band>>
    \/ BrowserScrape /\ FirstFrame /\ UNCHANGED <<rotator, proxy_caller, band>>

ScraperSpec == QuietInit /\ [][ScraperNext]_vars

\* a loaded ProxyRotator under hand-outs, failure reports and time
PoolSpecInit ==
    /\ SchedInit /\ PriceInit /\ autoflush
    /\ DetectIdle /\ ScrapeInit /\ SaveIdle /\ BatchIdle /\ OverlapIdle
    /\ JobsIdle /\ RecIdle /\ ObserverIdle
    /\ ScraperIdle /\ PoolInit /\ ProxyCallerIdle /\ BandIdle

PoolFrame == FirstFrame /\ UNCHANGED <<scraper, proxy_caller, band>>

PoolNext ==
    \/ GetRandomProxy /\ PoolFrame
    \/ ReportFailure /\ PoolFrame
    \/ PoolMinute /\ PoolFrame

PoolSpec == PoolSpecInit /\ [][PoolNext]_vars

\* time passes
PoolLiveSpec == PoolSpec /\ WF_vars(PoolMinute /\ PoolFrame)

\* _get_recommendation over pairs of scores
RecNext ==
    /\ GetRecommendations
    /\ UNCHANGED <<schedVars, priceVars, detectVars, scrapeVars, saveVars,
                   batchVars, overlapVars, invocation, observer, lastVars>>

RecSpec == QuietInit /\ [][RecNext]_vars

(***************************************************************************)
(* scheduled_scraping invoked again and again (jobs_scraping.py) on one    *)
(* SmartScheduler.  Each invocation is one step: get_next_jobs(max_jobs=3),*)
(* then every selected job in turn, each scrape job followed by its        *)
(* mark_completed.  The clock reads Clock throughout and the times of the  *)
(* last scrapes move back as time passes; a time more than                 *)
(* HardMaxInterval minutes old, which is due under every interval the      *)
(* scheduler can set, is kept as HardMaxInterval minutes old.              *)
(***************************************************************************)
Clock == HardMaxInterval

\* the minutes that may pass between two invocations
Spacings == {5, 15, 60}

\* the layers get_next_jobs makes scrape jobs of
ScrapedLayers == {"seed", "category"}

\* the fields of the scheduler that mark_completed writes
Schedules ==
    [interval_minutes |-> interval_minutes, last_scrape |-> last_scrape,
     success_rate |-> success_rate, avg_new_products |-> avg_new_products]

\* mark_completed on the fields s
Completed(s, source, layer, success, new_products) ==
    LET rate == UpdateRate(s.success_rate[source], success)
        avg == UpdateAvg(s.avg_new_products[source], new_products)
    IN [s EXCEPT !.last_scrape[source][layer] = now,
                 !.success_rate[source] = rate,
                 !.avg_new_products[source] = avg,
                 !.interval_minutes[layer] =
                     AdjustInterval(rate, avg, s.interval_minutes[layer],
                                    s.interval_minutes[layer])]

\* the loop of scheduled_scraping over the jobs, every scrape_source run
\* returning a result whose status is not "error"; new_products is
\* result.get("deals_new", 0), a key the result does not have
RECURSIVE RunJobs(_, _)
RunJobs(s, jobs) ==
    IF jobs = <<>> THEN s
    ELSE LET j == Head(jobs)
         IN RunJobs(IF j.type = "watchlist" THEN s
                    ELSE Completed(s, j.source, j.layer, TRUE, 0),
                    Tail(jobs))

\* one invocation, from get_next_jobs to the return
scheduled_scraping(watching) ==
    LET done == RunJobs(Schedules, get_next_jobs(3, watching))
    IN /\ interval_minutes' = done.interval_minutes
       /\ last_scrape' = done.last_scrape
       /\ success_rate' = done.success_rate
       /\ avg_new_products' = done.avg_new_products
       /\ UNCHANGED <<now, calls, last_report>>

\* minutes pass between two invocations
Wait(minutes) ==
    /\ last_scrape' =
          [s \in Sources |-> [l \in ScrapeLayer |->
              IF last_scrape[s][l] = NoneVal THEN NoneVal
              ELSE Max(last_scrape[s][l] - minutes, Clock - HardMaxInterval)]]
    /\ last_scrape' # last_scrape
    /\ UNCHANGED <<interval_minutes, success_rate, avg_new_products, now,
                   calls, last_report>>

InvokeScheduledScraping == \E watching \in BOOLEAN : scheduled_scraping(watching)

TimePasses == \E minutes \in Spacings : Wait(minutes)

RepeatInit ==
    /\ interval_minutes = [l \in ScrapeLayer |-> DefaultInterval(l)]
    /\ last_scrape = [s \in Sources |-> [l \in ScrapeLayer |-> NoneVal]]
    /\ success_rate = [s \in Sources |-> RateScale]
    /\ avg_new_products = [s \in Sources |-> 0]
    /\ now = Clock
    /\ calls = 0
    /\ last_report = {}
    /\ PriceInit /\ autoflush
    /\ DetectIdle /\ ScrapeInit /\ SaveIdle /\ BatchIdle /\ OverlapIdle
    /\ JobsIdle /\ RecIdle /\ ObserverIdle /\ LastIdle

RepeatFrame == JobsFrame /\ UNCHANGED invocation

RepeatNext ==
    \/ InvokeScheduledScraping /\ RepeatFrame
    \/ TimePasses /\ RepeatFrame

\* the invocations never cease
RepeatSpec ==
    RepeatInit /\ [][RepeatNext]_vars
    /\ WF_vars(InvokeScheduledScraping /\ RepeatFrame)

\* the first get_proxy_rotator calls of a process
RotatorFrame == FirstFrame /\ UNCHANGED <<scraper, band>>

RotatorNext ==
    \/ GetProxyRotator /\ RotatorFrame
    \/ LoadFromWebshare /\ RotatorFrame

RotatorSpec == QuietInit /\ [][RotatorNext]_vars

\* price bands, one after the other
BandNext ==
    CalculateRecommendedPrices /\ FirstFrame /\ UNCHANGED <<scraper, rotator, proxy_caller>>

BandSpec == QuietInit /\ [][BandNext]_vars

(***************************************************************************)
(* Claims                                                                  *)
(***************************************************************************)

\* C1: after any sequence of mark_completed calls, the interval of every layer
\* of every source is between 5 and 120 minutes, inclusive.
C1_IntervalWithinHardBounds ==
    \A source \in Sources, layer \in ScrapeLayer :
        /\ ConfigInterval(source, layer) >= 5
        /\ ConfigInterval(source, layer) <= 120

\* C1 witness: reports have driven one layer to the minimum and another to the
\* maximum.
C1_Witness ==
    /\ calls > 0
    /\ \E source \in Sources :
          /\ ConfigInterval(source, "seed") = 5
          /\ ConfigInterval(source, "category") = 120

\* C6: a mark_completed call that leaves the source's success rate below 0.5
\* sets the reported layer's interval to min(2 x its interval before the call,
\* 120), which is not below the interval before the call and not above 120.
C6_FailingReportDoubles ==
    [][\A r \in last_report' :
          (/\ calls' = calls + 1
           /\ r.source \in Sources
           /\ 2 * success_rate'[r.source] < RateScale)
          => /\ ConfigInterval(r.source, r.layer)'
                  = Min(2 * ConfigInterval(r.source, r.layer), 120)
             /\ ConfigInterval(r.source, r.layer)'
                  >= ConfigInterval(r.source, r.layer)
             /\ ConfigInterval(r.source, r.layer)' <= 120]_vars

\* C6 witness: a failing report on a source whose rate was already below 0.5
\* before it (0.45 = 0.5 x 0.9), with the reported layer at the cap.
C6_Witness ==
    \E r \in last_report :
        /\ r.source \in Sources
        /\ ~r.success
        /\ 100 * (success_rate[r.source] \div 100) < 45 * (RateScale \div 100)
        /\ ConfigInterval(r.source, r.layer) = 120

\* the processed URLs whose collection raised no error
Collected(r) == {url \in 1..r.processed :
                    \A i \in 1..Len(r.item_errors) : r.item_errors[i] # url}

\* a completed run in which some but not all processed URLs raised an error
PartialFailure(r) ==
    /\ r.kind = "run"
    /\ Len(r.item_errors) > 0
    /\ Len(r.item_errors) < r.processed

HasRows(rows, deal_id) == \E i \in 1..Len(rows) : rows[i].deal_id = deal_id

\* C2: cleanup_old_history(days) never leaves a deal that had a PriceHistory
\* row before the purge without any row after it.
C2_PurgeKeepsOneRow ==
    [][(\E days \in CleanupDays : cleanup_old_history(days))
          => \A deal_id \in Deals :
                HasRows(history, deal_id) => HasRows(history', deal_id)]_vars

\* C3: for a fixed stats row, if _detect_drop reports a drop for a price, it
\* reports a drop for every lower price.
C3_DropMonotone ==
    \A p \in DOMAIN detected, q \in DOMAIN detected :
        (q <= p /\ detected[p].is_drop) => detected[q].is_drop

\* C3 witness: on one row, a price that is a drop, a lower price, and a higher
\* price that is no drop, all classified.
C3_Witness ==
    \E p \in DOMAIN detected, q \in DOMAIN detected, r \in DOMAIN detected :
        /\ q < p /\ p < r
        /\ detected[p].is_drop /\ detected[q].is_drop /\ ~detected[r].is_drop

\* the history rows of a deal
RowsOf(deal_id) == {i \in 1..Len(history) : history[i].deal_id = deal_id}

\* C7: the observation of a deal without stats returns (False, None) and
\* leaves current = min_30d = max_30d = avg_30d = the price, no previous price,
\* observations_count = 1 and exactly one history row of the deal.
C7_FirstObservation ==
    \A o \in last_obs :
        o.is_new =>
            /\ ~o.is_drop
            /\ o.drop_percent = NoneVal
            /\ stats[o.deal_id].current_price = o.price
            /\ stats[o.deal_id].min_price_30d = o.price
            /\ stats[o.deal_id].max_price_30d = o.price
            /\ stats[o.deal_id].avg_price_30d = 100 * o.price
            /\ stats[o.deal_id].previous_price = NoneVal
            /\ stats[o.deal_id].observations_count = 1
            /\ Cardinality(RowsOf(o.deal_id)) = 1

\* C7 witness: the first observation of a deal, at price 100.
C7_Witness ==
    \E o \in last_obs : o.is_new /\ o.price = 100 /\ o.deal_id \in DOMAIN stats

\* pct (in tenths of a percent) is (1 - price / reference) x 100 rounded to one
\* decimal
IsRoundedFall(pct, price, reference) ==
    LET diff == 1000 * (reference - price) - pct * reference
    IN 2 * diff <= reference /\ 2 * diff >= 0 - reference

\* the observation changed the stored price
Changed(o) == ~o.is_new /\ o.price # o.old_price

\* C8: the percentage of a reported drop is relative to the 30-day floor when
\* the price is at or below floor x (1 - threshold), and relative to the
\* previous price otherwise.
C8_DropPercentReference ==
    \A o \in last_obs :
        o.is_drop =>
            IF 100 * o.price <= o.floor * (100 - DropThreshold(o.volatility))
            THEN IsRoundedFall(o.drop_percent, o.price, o.floor)
            ELSE IsRoundedFall(o.drop_percent, o.price, o.old_price)

\* C8 witness: floor 100, no volatility yet (threshold 12%), new price 85: a
\* drop of 15.0 relative to the floor.
C8_Witness ==
    \E o \in last_obs :
        /\ o.is_drop /\ o.floor = 100 /\ o.volatility = NoneVal
        /\ o.price = 85 /\ o.drop_percent = 150

\* the threshold the claim C9 prescribes, in percent
C9_ClaimedThreshold(volatility) ==
    IF volatility = NoneVal THEN 12
    ELSE IF volatility > 150 THEN 10
    ELSE IF volatility < 50 THEN 15
    ELSE 12

\* C9: the drop decision uses 10% when CV > 0.15, 15% when CV < 0.05 (a CV of
\* exactly 0 included), 12% otherwise or when no CV was computed.
C9_ThresholdFromCV ==
    \A o \in last_obs :
        Changed(o) =>
            (o.is_drop <=>
                \/ 100 * o.price
                     <= o.floor * (100 - C9_ClaimedThreshold(o.volatility))
                \/ 100 * o.price
                     <= o.old_price * (100 - C9_ClaimedThreshold(o.volatility)))

\* C10 as stated: an observation that changes the price is a drop iff the
\* price is at or below min(floor, previous price) x (1 - threshold).
C10_DropIffBelowMin ==
    \A o \in last_obs :
        Changed(o) =>
            (o.is_drop <=>
                100 * o.price
                  <= Min(o.floor, o.old_price)
                       * (100 - DropThreshold(o.volatility)))

\* C10 amended: an observation that changes the price is a drop iff the price
\* is at or below floor x (1 - threshold) or previous price x (1 - threshold),
\* that is at or below max(floor, previous price) x (1 - threshold).
C10_DropIffBelowEither ==
    \A o \in last_obs :
        Changed(o) =>
            (o.is_drop <=>
                100 * o.price
                  <= Max(o.floor, o.old_price)
                       * (100 - DropThreshold(o.volatility)))

\* C10 witness: a drop on the previous price while the price stays above
\* floor x (1 - threshold).
C10_Witness ==
    \E o \in last_obs :
        /\ Changed(o) /\ o.is_drop
        /\ o.floor < o.old_price
        /\ 100 * o.price > o.floor * (100 - DropThreshold(o.volatility))

\* the source runs that have started and not yet finished
RunningRuns == {i \in DOMAIN task : Running(i)}

\* C11: at every moment of a run_all_scrapers call, the number of source runs
\* that have started and not yet finished is at most the value
\* MAX_CONCURRENT_SCRAPERS had when the call made its semaphore.
C11_AtMostMaxConcurrent ==
    batch.pc = "gather" => Cardinality(RunningRuns) <= batch.max_concurrent

\* C11 witness: as many runs as the limit allows are running, at least one of
\* them with its scraper awaited, and another run is kept waiting.
C11_Witness ==
    /\ batch.pc = "gather"
    /\ Cardinality(RunningRuns) = batch.max_concurrent
    /\ \E i \in DOMAIN task : task[i].pc = "in_progress"
    /\ \E i \in DOMAIN task : task[i].pc = "pending"

\* the call is over: it returned its results or an exception left it
BatchOver == batch.pc \in {"returned", "raised"}

\* what lines 92-109 make of the runs: one entry per source name, "error" for
\* a source whose runs all failed, one error per failed run, the totals of the
\* runs that returned
ResultsOfRuns(r) ==
    /\ DOMAIN r.by_source = {task[i].source : i \in DOMAIN task}
    /\ \A name \in DOMAIN r.by_source :
          (\A i \in DOMAIN task :
              task[i].source = name => task[i].pc = "raised")
          => r.by_source[name] = "error"
    /\ \A i \in DOMAIN task :
          task[i].pc = "raised"
          <=> Cardinality({k \in DOMAIN r.errors : r.errors[k] = i}) = 1
    /\ r.total_scraped = TaskSum("scraped", Len(task))
    /\ r.total_new_deals = TaskSum("new_deals", Len(task))
    /\ r.total_scored <= r.total_new_deals

C12_ResultsOfRuns ==
    BatchOver => \A r \in batch_result : ResultsOfRuns(r)

\* the ScrapingLog rows of run i
LogsOfRun(i) == {k \in DOMAIN scraping_logs : scraping_logs[k].run = i}

\* C13: every source run that run_all_scrapers launched and that has ended by
\* returning or raising has created exactly one ScrapingLog row, also when it
\* failed before the collection started.
C13_OneLogPerRun ==
    \A i \in DOMAIN task :
        task[i].pc \in {"returned", "raised"} => Cardinality(LogsOfRun(i)) = 1

\* the status changes the lifecycle of a ScrapingLog allows
StatusSteps ==
    {<<"started", "in_progress">>, <<"in_progress", "completed">>,
     <<"in_progress", "failed">>}

\* C14: every ScrapingLog row is created with status started and its status
\* only changes from started to in_progress and from in_progress to completed
\* or failed; a row with a terminal status keeps it, and no row disappears.
C14_StatusOrder ==
    [][/\ \A k \in DOMAIN scraping_logs :
             /\ k \in DOMAIN scraping_logs'
             /\ \/ scraping_logs'[k].status = scraping_logs[k].status
                \/ <<scraping_logs[k].status, scraping_logs'[k].status>>
                       \in StatusSteps
       /\ \A k \in DOMAIN scraping_logs' \ DOMAIN scraping_logs :
             scraping_logs'[k].status = "started"]_vars

\* C14 witness: one row has gone through to completed and another through to
\* failed.
C14_Witness ==
    \E k, l \in DOMAIN scraping_logs :
        /\ scraping_logs[k].status = "completed"
        /\ scraping_logs[l].status = "failed"

\* C15: a ScrapingLog row reaches a terminal status: once the run that
\* created it has ended, by returning, raising or being cancelled, the row is
\* completed or failed, not left at started or in_progress.
C15_EndedRunHasTerminalLog ==
    \A k \in DOMAIN scraping_logs :
        Ended(scraping_logs[k].run)
        => scraping_logs[k].status \in {"completed", "failed"}

\* the scored deals whose flip score reaches the alert threshold
Alertable(scores) == {k \in DOMAIN scores : scores[k] >= MIN_FLIP_SCORE}

C17_FlaggedDropHasObservation ==
    \A d \in DOMAIN stats :
        stats[d].is_price_drop = 1
        => \E k \in DOMAIN history :
              /\ history[k].deal_id = d
              /\ history[k].observed_at = stats[d].drop_detected_at

\* the (source, layer) pairs of the scrape jobs an invocation has taken from
\* get_next_jobs and not yet reported
Unreported(w) ==
    {<<invocation[w].jobs[k].source, invocation[w].jobs[k].layer>> :
        k \in {n \in DOMAIN invocation[w].jobs :
                  invocation[w].jobs[n].type = "scrape"}}

\* C18: a scrape job is consumed once: while an invocation holds a job of a
\* (source, layer) that get_next_jobs returned and whose outcome is not yet
\* reported, no other get_next_jobs call has returned a job of that
\* (source, layer).
C18_JobConsumedOnce ==
    \A w1, w2 \in Invocations :
        w1 # w2 => Unreported(w1) \cap Unreported(w2) = {}

\* C20: for fixed margin percent, absolute margin and risk score, the
\* confidence _get_recommendation returns does not decrease when the score
\* rises.
C20_ConfidenceMonotonic ==
    \A r \in recommendation :
        r.low_score <= r.high_score => r.low.confidence <= r.high.confidence

\* the two calls of the latest pair: arguments and result of each
RecCalls ==
    UNION {{[shark_score |-> r.low_score, margin_percent |-> r.margin_percent,
             margin_euro |-> r.margin_euro, risk_score |-> r.risk_score,
             action |-> r.low.action],
            [shark_score |-> r.high_score, margin_percent |-> r.margin_percent,
             margin_euro |-> r.margin_euro, risk_score |-> r.risk_score,
             action |-> r.high.action]} : r \in recommendation}

\* C21: _get_recommendation returns buy only for a risk score of at least 50
\* together with score >= 75, margin percent >= 25 and margin >= 15, or with
\* the looser tier score >= 65, margin percent >= 20 and margin >= 10.
C21_BuyNeedsAcceptableRisk ==
    \A c \in RecCalls :
        c.action = "buy"
        => /\ c.risk_score >= 50
           /\ \/ /\ c.shark_score >= 750 /\ c.margin_percent >= 25
                 /\ c.margin_euro >= 15
              \/ /\ c.shark_score >= 650 /\ c.margin_percent >= 20
                 /\ c.margin_euro >= 10

\* C22: _get_recommendation returns watch only for a positive margin percent;
\* with a margin percent of zero or less it returns ignore, whatever the score.
C22_WatchNeedsPositiveMargin ==
    \A c \in RecCalls :
        c.margin_percent <= 0 => c.action = "ignore"

\* C23: the error list of the result scrape_source returns never has more
\* than 10 entries, however many items fail and whatever errors the
\* discovery left in the list
C23_ErrorListBounded ==
    \A r \in scrape_result : Len(r.errors) <= ErrorCap

\* the (source, layer) pairs of the schedules other than the reported one
OtherPairs(report) ==
    {p \in Sources \X ScrapeLayer :
        p[1] # report.source \/ p[2] # report.layer}

\* C24: mark_completed(A, L, ...) leaves the interval, the last-run time,
\* the success rate and the new-item average of every other (source, layer)
\* pair unchanged
C24_OtherPairsUnchanged ==
    [][\A report \in last_report' :
         calls' = calls + 1
         => \A p \in OtherPairs(report) :
              /\ interval_minutes'[p[2]] = interval_minutes[p[2]]
              /\ last_scrape'[p[1]][p[2]] = last_scrape[p[1]][p[2]]
              /\ success_rate'[p[1]] = success_rate[p[1]]
              /\ avg_new_products'[p[1]] = avg_new_products[p[1]]]_vars

\* what a report does leave alone: the last-run time of every other pair,
\* the rate and average of every other source, the interval of every other
\* layer
C24_FrameOfReport ==
    [][\A report \in last_report' :
         calls' = calls + 1
         => \A p \in OtherPairs(report) :
              /\ last_scrape'[p[1]][p[2]] = last_scrape[p[1]][p[2]]
              /\ p[1] # report.source
                 => /\ success_rate'[p[1]] = success_rate[p[1]]
                    /\ avg_new_products'[p[1]] = avg_new_products[p[1]]
              /\ p[2] # report.layer
                 => interval_minutes'[p[2]] = interval_minutes[p[2]]]_vars

\* a report on (jdsports, seed) leaves the seed interval that size reads as
\* it was
C24_SharedInterval ==
    [][\A report \in last_report' :
         (calls' = calls + 1 /\ report.source = "jdsports"
            /\ report.layer = "seed")
         => ConfigInterval("size", "seed")' = ConfigInterval("size", "seed")]_vars

\* the report is neutral: after it the source's success rate is not below
\* 0.5 and its new-item average is not above 10
NeutralAfter(report) ==
    /\ report.source \in Sources
    /\ ~RateBelowHalf(success_rate'[report.source])
    /\ ~AvgAboveTen(avg_new_products'[report.source])

\* C25: a neutral report moves the interval of its layer to
\* int(0.9 x current + 0.1 x configured baseline), the baseline being 15
\* minutes for seed and 60 for category, so that the interval relaxes back
\* to the baseline
C25_NeutralReportRelaxes ==
    [][\A report \in last_report' :
         (calls' = calls + 1 /\ NeutralAfter(report))
         => interval_minutes'[report.layer] =
                Relax(interval_minutes[report.layer],
                      DefaultInterval(report.layer))]_vars

\* what the code does on a neutral report: the interval stays where it is
C25_NeutralReportKeeps ==
    [][\A report \in last_report' :
         (calls' = calls + 1 /\ NeutralAfter(report))
         => interval_minutes'[report.layer] = interval_minutes[report.layer]]_vars

\* the invocations whose get_next_jobs call returns in the step
Taking == {w \in Invocations :
              invocation[w].pc = "idle" /\ invocation'[w].pc = "running"}

\* the jobs of a list, as a set
JobSet(jobs) == {jobs[k] : k \in DOMAIN jobs}

\* C26: get_next_jobs(max_jobs) returns at most max_jobs jobs in
\* non-decreasing priority number, and returns a category job only if it
\* returns every due watchlist or seed job
C26_PriorityOrderAndLimit ==
    [][\A w \in Taking :
         LET jobs == invocation'[w].jobs
             due == JobSet(invocation'[w].emitted)
         IN /\ Len(jobs) <= invocation'[w].max_jobs
            /\ \A i, k \in DOMAIN jobs :
                  i < k => LayerPriority(jobs[i].layer) <= LayerPriority(jobs[k].layer)
            /\ (\E k \in DOMAIN jobs : jobs[k].layer = "category")
               => \A j \in due : LayerPriority(j.layer) = 1 => j \in JobSet(jobs)]_vars

\* a call returned max_jobs jobs, the last one a category job, and left a due
\* category job out
C26_Witness ==
    \E w \in Invocations :
        /\ invocation[w].pc = "running"
        /\ Len(invocation[w].jobs) = invocation[w].max_jobs
        /\ invocation[w].jobs[1].layer \in {"seed", "watchlist"}
        /\ invocation[w].jobs[Len(invocation[w].jobs)].layer = "category"
        /\ \E j \in JobSet(invocation[w].emitted) :
               j \notin JobSet(invocation[w].jobs)

ScrapeJobOf(source, layer) ==
    [type |-> "scrape", source |-> source, layer |-> layer]

\* C27: before truncation get_next_jobs emits a scrape job for a (source,
\* layer) if and only if the layer is not the watchlist layer, the source has
\* URLs for the layer, and the layer has never run or now - last run is at
\* least the layer's current interval; a report at time t sets the last run
\* to t, so that no job of the pair is emitted before t + interval
C27_EmittedIffDue ==
    [][/\ \A w \in Taking :
            \A source \in Sources \cup {UnknownSource}, layer \in ScrapeLayer :
                ScrapeJobOf(source, layer) \in JobSet(invocation'[w].emitted)
                <=> /\ layer # "watchlist"
                    /\ layer \in SOURCE_LAYER_URLS(source)
                    /\ \/ last_scrape[source][layer] = NoneVal
                       \/ now - last_scrape[source][layer] >= interval_minutes[layer]
       /\ \A w \in Taking :
            \A j \in JobSet(invocation'[w].emitted) :
                (j.type = "scrape" /\ last_scrape[j.source][j.layer] # NoneVal)
                => now >= last_scrape[j.source][j.layer] + interval_minutes[j.layer]
       /\ \A report \in last_report' :
            (calls' = calls + 1 /\ report.source \in Sources)
            => last_scrape'[report.source][report.layer] = now]_vars

\* a call made exactly one interval after a pair's report emits the pair's
\* job and leaves out a pair reported less than its interval ago
C27_Witness ==
    \E w \in Invocations, source1, source2 \in Sources :
        /\ invocation[w].pc = "running"
        /\ invocation[w].jobs = get_next_jobs(invocation[w].max_jobs, invocation[w].watching)
        /\ last_scrape[source1]["seed"] # NoneVal
        /\ now = last_scrape[source1]["seed"] + interval_minutes["seed"]
        /\ ScrapeJobOf(source1, "seed") \in JobSet(invocation[w].emitted)
        /\ last_scrape[source2]["seed"] # NoneVal
        /\ now < last_scrape[source2]["seed"] + interval_minutes["seed"]
        /\ ScrapeJobOf(source2, "seed") \notin JobSet(invocation[w].emitted)

\* the mark_completed calls an invocation made for its job number n
ReportsOf(w, n) ==
    {k \in DOMAIN invocation[w].reports : invocation[w].reports[k].job = n}

\* C28: for every scrape job scheduled_scraping starts, mark_completed is
\* called exactly once for the job's (source, layer), also when
\* scrape_source raises or returns early, with success = False exactly when
\* the status is error, and the remaining selected jobs are still executed
C28_EveryStartedJobReported ==
    \A w \in Invocations :
        invocation[w].pc \in {"done", "raised"}
        => /\ invocation[w].started = Len(invocation[w].selected)
           /\ \A n \in 1 .. invocation[w].started :
                 invocation[w].selected[n].type = "scrape"
                 => /\ Cardinality(ReportsOf(w, n)) = 1
                    /\ \A k \in ReportsOf(w, n) :
                          LET r == invocation[w].reports[k]
                          IN /\ r.source = invocation[w].selected[n].source
                             /\ r.layer = invocation[w].selected[n].layer
                             /\ r.success = (r.status # "error")

\* the same for the invocations that return: when no scrape_source call
\* raises, every selected scrape job is reported once
C28_ReturnedInvocationReported ==
    \A w \in Invocations :
        invocation[w].pc = "done"
        => /\ invocation[w].started = Len(invocation[w].selected)
           /\ \A n \in 1 .. invocation[w].started :
                 invocation[w].selected[n].type = "scrape"
                 => /\ Cardinality(ReportsOf(w, n)) = 1
                    /\ \A k \in ReportsOf(w, n) :
                          invocation[w].reports[k].success
                              = (invocation[w].reports[k].status # "error")

\* the PriceHistory rows of a deal, oldest first
HistoryOf(deal_id) == SelectSeq(history, LAMBDA r : r.deal_id = deal_id)

\* the number of rows whose price differs from the current price stored when
\* the row was written: the stored price is the price of the first row and
\* then that of the latest row that differed from it
RECURSIVE ChangedRows(_, _)
ChangedRows(rows, stored) ==
    IF rows = <<>> THEN 0
    ELSE IF Head(rows).price # stored
         THEN 1 + ChangedRows(Tail(rows), Head(rows).price)
         ELSE ChangedRows(Tail(rows), stored)

\* C29: after any sequence of record_price_observation calls for one item,
\* with no purge, observations_count equals the number of the item's
\* PriceHistory rows and the number of calls, and price_changes_count equals
\* the number of calls whose price differed from the stored current price
C29_CountersMatchCalls ==
    \A d \in DOMAIN stats :
        /\ stats[d].observations_count = Len(HistoryOf(d))
        /\ DOMAIN stats = {d} => stats[d].observations_count = obs_total
        /\ stats[d].price_changes_count
              = ChangedRows(Tail(HistoryOf(d)), Head(HistoryOf(d)).price)

\* five or more observations of the item, some repeating the stored price and
\* some changing it
C29_Witness ==
    /\ DeepDeal \in DOMAIN stats
    /\ stats[DeepDeal].observations_count >= 5
    /\ stats[DeepDeal].price_changes_count >= 2
    /\ stats[DeepDeal].price_changes_count < stats[DeepDeal].observations_count - 1

\* both calls have returned or raised
RaceOver == \A c \in Callers : observer.call[c].pc \in {"done", "failed"}

\* the caller that arrived n-th
Arrival(n) == CHOOSE c \in Callers : observer.call[c].arrival = n

\* the tables after the two observations, run one after the other in arrival
\* order on the tables b
InArrivalOrder(b) ==
    LET p1 == observer.call[Arrival(1)].price
        p2 == observer.call[Arrival(2)].price
        o1 == ObserveOn(b.stats, b.history, DeepDeal, p1)
        stats1 == Put(b.stats, DeepDeal, o1.stats)
        history1 == Append(b.history, o1.row)
        o2 == ObserveOn(stats1, history1, DeepDeal, p2)
    IN [stats |-> Put(stats1, DeepDeal, o2.stats),
        history |-> Append(history1, o2.row)]

\* C30: two concurrent record_price_observation calls on one item leave the
\* stats and the history of the two calls run one after the other in arrival
\* order: no increment of observations_count is lost and neither call fails
\* because of the other
C30_ConcurrentCallsSerialize ==
    RaceOver
    => /\ \A c \in Callers : observer.call[c].pc = "done"
       /\ \A b \in observer.base :
             /\ stats = InArrivalOrder(b).stats
             /\ Len(history) = Len(InArrivalOrder(b).history)
             /\ JobSet(history) = JobSet(InArrivalOrder(b).history)

\* neither call raises
C30_NeitherCallFails ==
    \A c \in Callers : observer.call[c].pc # "failed"

\* when both calls return, each has counted its observation
C30_NoLostIncrement ==
    (\A c \in Callers : observer.call[c].pc = "done")
    => stats[DeepDeal].observations_count = Len(HistoryOf(DeepDeal))

Last(seq) == seq[Len(seq)]

\* C31: browser scraping is started in a run only after the structured fetch
\* of the run was attempted and failed with a transport or parse error; a
\* fetch that succeeds, with zero products or an unexpected but parseable
\* answer included, never leads to browser scraping
C31_BrowserOnlyAfterFailedFetch ==
    (scraper.pc \in {"browser_in_try", "browser_in_handler"} \/ scraper.browser # <<>>)
    => /\ scraper.fetches # <<>>
       /\ Last(scraper.fetches) \in FetchFailed

\* the browser scraping never starts before the API was tried
C31_BrowserAfterSomeFetch ==
    (scraper.pc \in {"browser_in_try", "browser_in_handler"} \/ scraper.browser # <<>>)
    => scraper.fetches # <<>>

\* C32: within one scrape_sales run the browser fallback is invoked at most
\* once, also when the browser fallback itself raises
C32_BrowserAtMostOnce == Len(scraper.browser) <= 1

\* SizeScraper calls its browser scraping at most once
C32_SizeBrowserAtMostOnce ==
    scraper.name = "size" => Len(scraper.browser) <= 1

\* C33: once report_failure has been called max_fails times for a proxy,
\* get_random_proxy does not return the proxy during the cooldown_minutes
\* that follow the last reported failure, whenever it was last handed out
C33_CooledAfterLastFailure ==
    \A h \in rotator.handed :
        (h.proxy # NoneVal /\ h.fail_count >= MAX_FAILS)
        => h.last_failed >= COOLDOWN_MINUTES

\* the cooldown the code keeps: a proxy with max_fails failures is not
\* returned during the cooldown_minutes that follow its last hand-out
C33_CooledAfterLastUse ==
    \A h \in rotator.handed :
        (h.proxy # NoneVal /\ h.fail_count >= MAX_FAILS)
        => (h.last_used = NoneVal \/ h.last_used >= COOLDOWN_MINUTES)

C35_NoUrlIsError ==
    \A r \in scrape_result :
        (r.kind = "run" /\ r.products_found = 0) => r.status = "error"

C37_NoDropOnRise ==
    \A o \in last_obs :
        (~o.is_new /\ o.price > o.old_price) => ~o.is_drop

\* a drop reported on a rise is a drop on a 30-day floor that lies above the
\* price stored before the observation
C37_DropOnRiseIsOnFloor ==
    \A o \in last_obs :
        (~o.is_new /\ o.price > o.old_price /\ o.is_drop)
        => /\ o.floor > o.old_price
           /\ 100 * o.price <= o.floor * (100 - DropThreshold(o.volatility))

\* C38: no due job starves: when scheduled_scraping is invoked again and
\* again, every (source, layer) with configured URLs is eventually selected
\* and scraped, whatever the spacing of the invocations and whether or not
\* there are deals to watch
C38_NoDueJobStarves ==
    <>(\A s \in Sources, l \in ScrapedLayers :
          l \in SOURCE_LAYER_URLS(s) => last_scrape[s][l] # NoneVal)

\* C39: get_proxy_rotator hands no caller a rotator whose initialization has
\* not completed: also among concurrent first callers, every call returns
\* after the list is loaded, and the list is loaded at most once
C39_ReturnedRotatorInitialized ==
    /\ \A c \in ProxyCallers :
          proxy_caller[c].pc = "returned" => proxy_caller[c].initialized
    /\ rotator.loads <= 1

\* the part the lock and the flag of initialize keep: one load at most
C39_LoadedAtMostOnce == rotator.loads <= 1

\* C40: the recommended price band is ordered: for comparables with
\* 0 < p25 <= median <= p75, aggressive <= optimal <= patient
C40_BandOrdered ==
    \A b \in band :
        (0 < b.price_p25 /\ b.price_p25 <= b.price_median
                        /\ b.price_median <= b.price_p75)
        => /\ b.prices.aggressive <= b.prices.optimal
           /\ b.prices.optimal <= b.prices.patient

\* the part of the order the factors keep: the aggressive price is the lowest
C40_AggressiveLowest ==
    \A b \in band :
        (0 < b.price_p25 /\ b.price_p25 <= b.price_median
                        /\ b.price_median <= b.price_p75)
        => /\ b.prices.aggressive <= b.prices.optimal
           /\ b.prices.aggressive <= b.prices.patient

====
